---- MODULE Spec2Model ----
(***************************************************************************)
(* The asynchronous task engine of pulp (src/pulp/server/async.py): the    *)
(* module-level API around the global TaskQueue (enqueue, run_async,       *)
(* cancel_async, reschedule_async, find_async), start-up recovery from     *)
(* persisted snapshots (_load_persisted_tasks, initialize), the RMI        *)
(* proxies (RemoteClass, RemoteMethod) and the RMI reply handler           *)
(* (ReplyHandler.succeeded / failed); and its callers in                   *)
(* src/pulp/server/api/repo.py (RepoApi.sync, RepoApi.clone, __main__).    *)
(* Also merge_settings of pulpcore.app.settings, as its tests in           *)
(* src/pulpcore/tests/test_settings.py describe it.                        *)
(*                                                                         *)
(* TaskQueue, Task, TaskSnapshot and SnapshotStorage live in               *)
(* pulp.server.tasking / pulp.server.db, outside the files at hand; the    *)
(* operators named TaskQueue_*, Task_*, TaskSnapshot_* follow the written  *)
(* specification of those components.                                      *)
(***************************************************************************)
EXTENDS Integers, Sequences, FiniteSets, TLC

\* ----------------------------------------------------------------- bounds
MaxTasks == 2      \* tasks ever admitted to the queue (ids 1..MaxTasks)
MaxFifo == 3       \* the same, in the specification of the dispatch order
NumKeys == 2       \* distinct derived unique keys (callable + arguments)
MaxTime == 1       \* the clock runs 0..MaxTime
MaxClock == 3      \* the same, where remote invocations have deadlines
MaxDeadline == 1   \* deadlines of remote invocations: 1..MaxDeadline ticks
Slack == 1         \* ticks the watchdog may be late by
NumThreads == 2    \* threads calling the public operations at once
MaxSched == 4      \* the clock runs 0..MaxSched where due times go stale
MergeKeys == 2     \* top-level keys of the settings merged
MaxDepth == 3      \* nested calls the interpreter allows (its recursion limit)
MaxPkgs == 3       \* package ids 1..MaxPkgs
MaxGroups == 2     \* package group ids 1..MaxGroups

Keys == 1..NumKeys
Times == 0..MaxTime
\* Python's None among task ids and returned values, which are positive
None == 0

\* an exception value: the exception named val, inside `wrap` 1-tuples
Exc(val) == [val |-> val, wrap |-> 0]
Tuple1(e) == [e EXCEPT !.wrap = e.wrap + 1]
NoException == Exc("None")

\* values a callable or a remote method returns / raises
RetVals == {42}
ExVals == {Exc("RemoteError")}

\* an optional value: Python's None, or the value
Nothing == <<>>
Some(v) == <<v>>

\* [tasking] section of the configuration: concurrency_threshold, the
\* deprecated max_concurrent (0: the option is absent), failure_threshold
\* and schedule_threshold (a time delta, in ticks)
ConfigOf(ct, mc, ft, st) ==
    [concurrency_threshold |-> ct, max_concurrent |-> mc,
     failure_threshold |-> ft, schedule_threshold |-> st]

\* a configuration whose thresholds stay out of the way: failure_threshold
\* 0, schedule_threshold longer than the clock runs
Config(ct, mc) == ConfigOf(ct, mc, 0, MaxTime + 1)
Configs == {Config(1, 0), Config(2, 0), Config(2, 1)}

Active == {"waiting", "running"}
Terminal == {"succeeded", "failed", "canceled", "timed_out"}

VARIABLES
    up,               \* TRUE while the process runs with _queue initialized
    max_concurrency,  \* the TaskQueue's max_concurrency
    task,             \* the queue's registry: task id -> Task
    waiting,          \* ids of the waiting tasks, in enqueue order
    storage,          \* the TaskSnapshot collection: task id -> snapshot
    now,              \* wall clock
    config,           \* the configuration file
    next_id,          \* id of the next task the queue admits
    by_unique,        \* history: ids whose admission was made with unique=True
    last,             \* history: the call just made (enqueue and what it
                      \* returned, initialize, a reply delivered), if any
    calls,            \* remote invocations awaiting a reply: owning task id
                      \* -> the invocation published
    thread,           \* submitting threads: where each is in the call it makes
    lock,             \* the thread inside the queue's lock, or None
    attached,         \* task id -> what was attached to the task after its
                      \* construction (progress_callback, synchronizer)
    remote,           \* the instance dictionary of a RemoteClass
    objectdb          \* the repo document of the repos collection

vars == <<up, max_concurrency, task, waiting, storage, now, config, next_id,
          by_unique, last, calls, thread, lock, attached, remote, objectdb>>

Threads == 1..NumThreads
Idle == [pc |-> "idle"]

NoCall == [op |-> "none"]

\* RemoteClass.__init__(id, secret, options, name): the instance dictionary;
\* self.__x inside the class is stored under its class-private name
RemoteClass_init(options, name) ==
    [_RemoteClass__options |-> options, _RemoteClass__name |-> name,
     _RemoteClass__taskid |-> 0]

\* model.Repo(id, name, arch): a repo document without content
Repo_new == [packages |-> <<>>, package_count |-> 0, packagegroups |-> <<>>]

\* the queue and its store, as the value the operations transform
Q == [task |-> task, waiting |-> waiting, storage |-> storage]
EmptyRegistry(st) == [task |-> <<>>, waiting |-> <<>>, storage |-> st]

\* f with x mapped to v (x added to the domain when absent)
Put(f, x, v) == [y \in (DOMAIN f) \cup {x} |-> IF y = x THEN v ELSE f[y]]
Drop(f, x) == [y \in (DOMAIN f) \ {x} |-> f[y]]
Range(s) == {s[i] : i \in 1..Len(s)}
Without(s, x) == SelectSeq(s, LAMBDA y : y # x)

\* ------------------------------------------------ Task and its snapshot
\* Task(method, args, kwargs, timeout): a new task is waiting, unscheduled
Task_new(key, timeout) ==
    [key |-> key, state |-> "waiting", timeout |-> timeout,
     scheduled_time |-> 0, cancel_requested |-> FALSE,
     result |-> None, exception |-> NoException]

\* Task.snapshot(): the durable projection of a task
Task_snapshot(t) ==
    [key |-> t.key, state |-> t.state, timeout |-> t.timeout,
     scheduled_time |-> t.scheduled_time]

\* to_task building a new, unscheduled task of the snapshot's callable
TaskSnapshot_to_task_unscheduled(snap) == Task_new(snap.key, snap.timeout)

\* TaskSnapshot(snapshot).to_task(): the reconstructed task is waiting
TaskSnapshot_to_task(snap) ==
    [key |-> snap.key, state |-> "waiting", timeout |-> snap.timeout,
     scheduled_time |-> snap.scheduled_time, cancel_requested |-> FALSE,
     result |-> None, exception |-> NoException]

\* ------------------------------------------------------------ TaskQueue
ActiveWithKey(q, key) ==
    {i \in DOMAIN q.task : q.task[i].state \in Active /\ q.task[i].key = key}

\* TaskQueue.enqueue(task, unique): the new queue and the exception raised
TaskQueue_enqueue(q, id, t, unique) ==
    IF unique /\ ActiveWithKey(q, t.key) # {}
    THEN [q |-> q, exc |-> "NonUniqueTaskException"]
    ELSE IF id \in DOMAIN q.storage
    THEN [q |-> q, exc |-> "DuplicateSnapshotError"]
    ELSE [q |-> [task |-> Put(q.task, id, t),
                 waiting |-> Append(q.waiting, id),
                 storage |-> Put(q.storage, id, Task_snapshot(t))],
          exc |-> "none"]

\* the failure_threshold initialize() hands to TaskQueue as it is configured
failure_threshold_as_configured(cfg) == Some(cfg.failure_threshold)

\* the failure_threshold initialize() hands to TaskQueue: None when the
\* option is below 1
failure_threshold(cfg) ==
    IF cfg.failure_threshold < 1 THEN Nothing ELSE Some(cfg.failure_threshold)

\* initialize() constructing the TaskQueue with no schedule_threshold
configured_schedule_threshold_none(cfg) == Nothing

\* _configured_schedule_threshold(): the [tasking] schedule_threshold option
\* parsed into a time delta
configured_schedule_threshold(cfg) == Some(cfg.schedule_threshold)

\* TaskQueue(max_concurrency, failure_threshold, schedule_threshold, ...):
\* the thresholds of the queue initialize() constructs
TaskQueue_failure_threshold == failure_threshold(config)
TaskQueue_schedule_threshold == configured_schedule_threshold(config)

\* the failures the queue counts: the failed tasks of its registry
Failures(q) == Cardinality({i \in DOMAIN q.task : q.task[i].state = "failed"})

\* with a failure threshold, once that many failures are counted
Tripped(q, threshold) == threshold # Nothing /\ Failures(q) >= threshold[1]

\* with a schedule threshold, a scheduled task is stale once its due time
\* is older than time - threshold
Stale(t, time, threshold) ==
    /\ threshold # Nothing
    /\ t.scheduled_time # None
    /\ t.scheduled_time < time - threshold[1]

\* a waiting task is eligible once its scheduled time has arrived, unless
\* that time is stale or the failure threshold is reached
Eligible(q, id, time) ==
    /\ q.task[id].scheduled_time <= time
    /\ ~Stale(q.task[id], time, TaskQueue_schedule_threshold)
    /\ ~Tripped(q, TaskQueue_failure_threshold)

\* the single lock the queue serializes its registry behind, ignored
TaskQueue_lock_ignored(l) == TRUE

\* the single lock the queue serializes its registry behind is free
TaskQueue_lock_free(l) == l = None

Running(q) == {i \in DOMAIN q.task : q.task[i].state = "running"}

\* one pass of the dispatch loop: oldest eligible waiting task first, while
\* fewer than max tasks run; the snapshot is saved again on running
RECURSIVE TaskQueue_dispatch(_, _, _)
TaskQueue_dispatch(q, max, time) ==
    LET elig == SelectSeq(q.waiting, LAMBDA i : Eligible(q, i, time))
    IN  IF Cardinality(Running(q)) >= max \/ elig = <<>>
        THEN q
        ELSE LET id == Head(elig)
                 t == [q.task[id] EXCEPT !.state = "running"]
             IN  TaskQueue_dispatch(
                     [task |-> [q.task EXCEPT ![id] = t],
                      waiting |-> Without(q.waiting, id),
                      storage |-> Put(q.storage, id, Task_snapshot(t))],
                     max, time)

\* a completion callback that leaves the snapshot in the collection
TaskQueue_complete_keeps_snapshot(q, id, t) ==
    [task |-> [q.task EXCEPT ![id] = [t EXCEPT !.cancel_requested = FALSE]],
     waiting |-> Without(q.waiting, id),
     storage |-> q.storage]

\* the queue's completion callback: a task entering a terminal state has
\* its snapshot deleted (no-op when absent); a pending request to stop
\* ends with the executing unit
TaskQueue_complete(q, id, t) ==
    [task |-> [q.task EXCEPT ![id] = [t EXCEPT !.cancel_requested = FALSE]],
     waiting |-> Without(q.waiting, id),
     storage |-> IF id \in DOMAIN q.storage THEN Drop(q.storage, id) ELSE q.storage]

\* Task.succeeded that does not look at the state it is called in
Task_succeeded_any_state(q, id, result) ==
    TaskQueue_complete(q, id,
        [q.task[id] EXCEPT !.state = "succeeded", !.result = result])

\* Task.succeeded(result): running --success callback--> succeeded
Task_succeeded(q, id, result) ==
    IF q.task[id].state = "running"
    THEN TaskQueue_complete(q, id,
             [q.task[id] EXCEPT !.state = "succeeded", !.result = result])
    ELSE q

\* Task.failed that does not look at the state it is called in
Task_failed_any_state(q, id, exception, tb) ==
    TaskQueue_complete(q, id,
        [q.task[id] EXCEPT !.state = "failed", !.exception = exception])

\* an error of the callable that nothing catches: no callback is made
Task_failed_unhandled(q, id, exception, tb) == q

\* Task.failed(exception, tb): running --error callback--> failed
Task_failed(q, id, exception, tb) ==
    IF q.task[id].state = "running"
    THEN TaskQueue_complete(q, id,
             [q.task[id] EXCEPT !.state = "failed", !.exception = exception])
    ELSE q

\* running --timeout elapsed--> timed_out
Task_timed_out(q, id) ==
    IF q.task[id].state = "running" /\ q.task[id].timeout
    THEN TaskQueue_complete(q, id, [q.task[id] EXCEPT !.state = "timed_out"])
    ELSE q

\* TaskQueue.cancel(task): a waiting task is removed and marked canceled; a
\* running one is asked to stop
TaskQueue_cancel(q, id) ==
    IF q.task[id].state = "waiting"
    THEN TaskQueue_complete(q, id, [q.task[id] EXCEPT !.state = "canceled"])
    ELSE IF q.task[id].state = "running"
    THEN [q EXCEPT !.task[id].cancel_requested = TRUE]
    ELSE q

\* the executor confirms the stop of a running task asked to cancel
Task_canceled(q, id) ==
    IF q.task[id].state = "running" /\ q.task[id].cancel_requested
    THEN TaskQueue_complete(q, id, [q.task[id] EXCEPT !.state = "canceled"])
    ELSE q

\* TaskQueue.reschedule(task, scheduler): the next due time only
TaskQueue_reschedule(q, id, due) ==
    [q EXCEPT !.task[id].scheduled_time = due]

\* TaskQueue.find(id=taskid): the tasks of the registry with that id
TaskQueue_find(q, taskid) == {i \in DOMAIN q.task : i = taskid}

\* TaskQueue.waiting_tasks(): the tasks queued for dispatch
TaskQueue_waiting_tasks(q) == Range(q.waiting)

\* TaskQueue.running_tasks(): the tasks of the registry that are running
TaskQueue_running_tasks(q) ==
    {i \in DOMAIN q.task : q.task[i].state = "running"}

\* TaskQueue.incomplete_tasks(): the tasks that have not reached an end
TaskQueue_incomplete_tasks(q) ==
    {i \in DOMAIN q.task : q.task[i].state \in Active}

\* TaskQueue.complete_tasks(): the tasks kept after their end
TaskQueue_complete_tasks(q) ==
    {i \in DOMAIN q.task : q.task[i].state \in Terminal}

\* TaskQueue.all_tasks(): the whole registry
TaskQueue_all_tasks(q) == DOMAIN q.task

\* ------------------------------------------------------------- async api
\* enqueue without the return None of the NonUniqueTaskException handler
enqueue_falls_through(q, id, t, unique) ==
    LET r == TaskQueue_enqueue(q, id, t, unique)
    IN  IF r.exc = "DuplicateSnapshotError" THEN [q |-> r.q, ret |-> None]
        ELSE [q |-> r.q, ret |-> id]

\* enqueue without its final return task
enqueue_returns_nothing(q, id, t, unique) ==
    [q |-> TaskQueue_enqueue(q, id, t, unique).q, ret |-> None]

\* enqueue(task, unique=True): the queue's enqueue; both exceptions are
\* logged and turned into a None result, otherwise the task is returned
enqueue(q, id, t, unique) ==
    LET r == TaskQueue_enqueue(q, id, t, unique)
    IN  IF r.exc = "NonUniqueTaskException" THEN [q |-> r.q, ret |-> None]
        ELSE IF r.exc = "DuplicateSnapshotError" THEN [q |-> r.q, ret |-> None]
        ELSE [q |-> r.q, ret |-> id]

\* run_async building the Task without the timeout it was given
run_async_drops_timeout(q, id, key, timeout, unique) ==
    enqueue(q, id, Task_new(key, FALSE), unique)

\* run_async(method, args, kwargs, timeout, unique): build the task, enqueue it
run_async(q, id, key, timeout, unique) ==
    enqueue(q, id, Task_new(key, timeout), unique)

\* cancel_async marking a waiting task canceled where it stands
cancel_async_keeps_waiting(q, id) ==
    IF q.task[id].state = "waiting"
    THEN [q EXCEPT !.task[id].state = "canceled"]
    ELSE TaskQueue_cancel(q, id)

\* cancel_async ending a running task there and then
cancel_async_forces(q, id) ==
    IF q.task[id].state \in Active
    THEN TaskQueue_complete(q, id, [q.task[id] EXCEPT !.state = "canceled"])
    ELSE q

\* cancel_async(task): the queue's cancel
cancel_async(q, id) == TaskQueue_cancel(q, id)

\* a reschedule that puts the task back at the end of the waiting tasks
reschedule_async_requeues(q, id, due) ==
    [q EXCEPT !.task[id].scheduled_time = due,
              !.task[id].state = "waiting",
              !.waiting = Append(Without(q.waiting, id), id)]

\* reschedule_async(task, scheduler): the queue's reschedule
reschedule_async(q, id, due) == TaskQueue_reschedule(q, id, due)

find_async(q, taskid) == TaskQueue_find(q, taskid)

\* a query that takes the waiting tasks out of the queue as it lists them
waiting_async_drains(q) ==
    [q |-> [q EXCEPT !.waiting = <<>>], ret |-> TaskQueue_waiting_tasks(q)]

\* waiting_async() .. all_async(): what the queue is left as, and the list
\* returned
waiting_async(q) == [q |-> q, ret |-> TaskQueue_waiting_tasks(q)]

running_async(q) == [q |-> q, ret |-> TaskQueue_running_tasks(q)]

incomplete_async(q) == [q |-> q, ret |-> TaskQueue_incomplete_tasks(q)]

complete_async(q) == [q |-> q, ret |-> TaskQueue_complete_tasks(q)]

all_async(q) == [q |-> q, ret |-> TaskQueue_all_tasks(q)]

\* ---------------------------------------------------------------- RepoApi
\* the unique key of the clone of a repository, apart from the keys of syncs
CloneKey(repo) == NumKeys + repo

\* RepoApi.sync(id, timeout, skip): run_async(self._sync, [id, skip]) with
\* unique left at its default True; when the repository has a source,
\* set_progress / set_synchronizer are called on what run_async returned
RepoApi_sync(q, id, repo, has_source, timeout) ==
    LET r == run_async(q, id, repo, timeout, TRUE)
    IN  [q |-> r.q, ret |-> r.ret,
         raised |-> IF has_source /\ r.ret = None THEN "AttributeError"
                    ELSE "none"]

\* RepoApi.clone(id, clone_id, ...): run_async(self._clone, [...]), then
\* set_progress on what it returned, whatever the feed
RepoApi_clone(q, id, repo, timeout) ==
    LET r == run_async(q, id, CloneKey(repo), timeout, TRUE)
    IN  [q |-> r.q, ret |-> r.ret,
         raised |-> IF r.ret = None THEN "AttributeError" ELSE "none"]

\* __main__ of repo.py, which the crontab entry of a scheduled sync runs:
\* RepoApi()._sync(repo_id), called here and now, with no enqueue
main(q, repo_id) == [q |-> q, enqueues |-> 0, runs |-> {repo_id}]

\* ------------------------------------------ initialization and recovery
\* the re-enqueue loop of _load_persisted_tasks: enqueue(task), unique
\* left at its default True
RECURSIVE enqueue_all(_, _, _)
enqueue_all(q, ids, tasks) ==
    IF ids = <<>> THEN q
    ELSE enqueue_all(enqueue(q, Head(ids), tasks[Head(ids)], TRUE).q,
                     Tail(ids), tasks)

\* _load_persisted_tasks without its removal loop
load_persisted_tasks_keeps_records(q, found) ==
    enqueue_all(q, found,
                [i \in Range(found) |-> TaskSnapshot_to_task(q.storage[i])])

\* _load_persisted_tasks removing only the first record found
load_persisted_tasks_removes_first(q, found) ==
    LET tasks == [i \in Range(found) |-> TaskSnapshot_to_task(q.storage[i])]
        gone == IF found = <<>> THEN {} ELSE {Head(found)}
    IN  enqueue_all([q EXCEPT !.storage =
                        [i \in (DOMAIN q.storage) \ gone |-> q.storage[i]]],
                    found, tasks)

\* _load_persisted_tasks(): every snapshot found (in the order the
\* collection yields them) is turned into a task, all the records found are
\* removed, then the tasks are enqueued
load_persisted_tasks(q, found) ==
    LET tasks == [i \in Range(found) |-> TaskSnapshot_to_task(q.storage[i])]
        removed == [q EXCEPT !.storage =
                       [i \in (DOMAIN q.storage) \ Range(found) |-> q.storage[i]]]
    IN  enqueue_all(removed, found, tasks)

\* initialize() without the override by the deprecated option
concurrency_threshold_only(cfg) == cfg.concurrency_threshold

\* the max_concurrency initialize() hands to TaskQueue: the deprecated
\* max_concurrent option, when present, overrides concurrency_threshold
concurrency_threshold(cfg) ==
    IF cfg.max_concurrent # 0 THEN cfg.max_concurrent
    ELSE cfg.concurrency_threshold

\* initialize(): a fresh TaskQueue over the snapshot storage, then recovery
initialize(st, found) == load_persisted_tasks(EmptyRegistry(st), found)

\* the orders in which collection.find() may yield the records
Orders(S) == {s \in [1..Cardinality(S) -> S] : Range(s) = S}

\* ---------------------------------------------------------- ReplyHandler
\* ReplyHandler.succeeded calling find_async() with no criterion
ReplyHandler_succeeded_finds_all(q, reply) ==
    LET found == DOMAIN q.task
    IN  IF found # {}
        THEN Task_succeeded(q, CHOOSE i \in found : \A j \in found : i <= j,
                            reply.retval)
        ELSE q

\* ReplyHandler.succeeded handing the task the task id for a result
ReplyHandler_succeeded_passes_taskid(q, reply) ==
    LET found == find_async(q, reply.any)
    IN  IF found # {}
        THEN Task_succeeded(q, CHOOSE i \in found : TRUE, reply.any)
        ELSE q

\* ReplyHandler.succeeded(reply): the task found by reply.any gets
\* succeeded(reply.retval); an unknown id is logged
ReplyHandler_succeeded(q, reply) ==
    LET found == find_async(q, reply.any)
    IN  IF found # {}
        THEN Task_succeeded(q, CHOOSE i \in found : TRUE, reply.retval)
        ELSE q

\* ReplyHandler.failed that logs the reply and does no more
ReplyHandler_failed_only_logs(q, reply) == q

\* ReplyHandler.failed that stores the exception on the task found and does
\* not end it
ReplyHandler_failed_stores_only(q, reply) ==
    LET found == find_async(q, reply.any)
    IN  IF found # {}
        THEN [q EXCEPT !.task[CHOOSE i \in found : TRUE].exception =
                           Tuple1(reply.exval)]
        ELSE q

\* ReplyHandler.failed(reply): exception = reply.exval,  (a 1-tuple);
\* tb = repr(exception); the task found gets failed(exception, tb)
ReplyHandler_failed(q, reply) ==
    LET found == find_async(q, reply.any)
        exception == Tuple1(reply.exval)
        tb == [repr |-> exception]
    IN  IF found # {}
        THEN Task_failed(q, CHOOSE i \in found : TRUE, exception, tb)
        ELSE q

\* what the handler does with a reply past its info line, without the test
\* of the list find_async returned
ReplyHandler_outcome_unchecked(q, reply) ==
    IF find_async(q, reply.any) # {} THEN "callback" ELSE "IndexError"

\* what the handler does with a reply past its info line: the callback of
\* the task found is invoked, or a warning is logged; nothing is raised
ReplyHandler_outcome(q, reply) ==
    IF find_async(q, reply.any) # {} THEN "callback" ELSE "warning"

\* ------------------------------------------------------ remote invocation
\* RemoteMethod.CTAG, the RMI correlation tag
CTAG == "pulp.task"

\* ReplyHandler.__init__: the reply consumer reads Queue(RemoteMethod.CTAG)
ReplyHandler_queue == CTAG

\* RemoteMethod.__call__ handing the agent RemoteClass.__taskid, which stays 0
RemoteMethod_call_initial_taskid(taskid, deadline, time) ==
    [ctag |-> CTAG, any |-> 0, issued |-> time, deadline |-> deadline]

\* RemoteMethod.__call__ handing the agent no watchdog: no deadline the
\* clock reaches
RemoteMethod_call_unwatched(taskid, deadline, time) ==
    [ctag |-> CTAG, any |-> taskid, issued |-> time,
     deadline |-> MaxClock + Slack + 1]

\* RemoteClass.__call__(task) keeps task.id; RemoteMethod.__call__ publishes
\* the invocation through Agent(any=taskid, ctag=CTAG, watchdog=watchdog)
RemoteMethod_call(taskid, deadline, time) ==
    [ctag |-> CTAG, any |-> taskid, issued |-> time, deadline |-> deadline]

\* the watchdog tracks an invocation until its deadline
WatchDog_overdue(call, time) == time >= call.issued + call.deadline

\* at the deadline the watchdog has a failure reply delivered, of a
\* timeout-kind error, with the correlation payload of the invocation
WatchDog_reply(call) == [any |-> call.any, exval |-> Exc("RequestTimeout")]

\* a reply or the watchdog ends the invocations of that correlation payload
Resolved(c, any) == [i \in {j \in DOMAIN c : c[j].any # any} |-> c[i]]

\* --------------------------------------------- AsyncAgent and RemoteClass
\* names looked up on the agent and on a remote class
ClassNames == {"Repo", "Packages", "Shell"}
MethodNames == {"update", "install", "uninstall", "__str__"}
Options == {"timeout", "window"}

\* name.startswith('__')
StartsWithDunder(name) == name \in {"__str__"}

\* AsyncAgent.__getattr__(name): a new RemoteClass of that name with the
\* agent's options (the agent is built with none)
AsyncAgent_getattr(name) == RemoteClass_init({}, name)

\* RemoteClass.__call__(task, **options): self.taskid = task.id, the options
\* merged into self.__options
RemoteClass_call(self, taskid, options) ==
    Put([self EXCEPT !._RemoteClass__options = @ \cup options],
        "taskid", taskid)

\* an attribute found or an exception raised
Found(v) == [raised |-> "none", value |-> v]
Raised(e) == [raised |-> e, value |-> None]

\* RemoteMethod(id, secret, im_class, options, taskid, name)
RemoteMethod_init(classname, options, taskid, name) ==
    [classname |-> classname, options |-> options, taskid |-> taskid,
     name |-> name]

\* self.<name> on a RemoteClass: the instance dictionary first; for a name
\* not in it RemoteClass.__getattr__(name), which reads self.__dict__[name]
\* for a name starting with '__' and builds a RemoteMethod otherwise,
\* evaluating self.taskid on the way; depth counts the nested calls
RECURSIVE RemoteClass_attribute(_, _, _)
RemoteClass_attribute(self, name, depth) ==
    IF name \in DOMAIN self THEN Found(self[name])
    ELSE IF depth >= MaxDepth THEN Raised("RuntimeError")
    ELSE IF StartsWithDunder(name) THEN Raised("KeyError")
    ELSE LET taskid == RemoteClass_attribute(self, "taskid", depth + 1)
         IN  IF taskid.raised # "none" THEN taskid
             ELSE Found(RemoteMethod_init(self._RemoteClass__name,
                                          self._RemoteClass__options,
                                          taskid.value, name))

\* ------------------------------------------------- RepoApi: packages
PackageIds == 1..MaxPkgs

\* the lists of at most two package ids a caller passes
PackageLists ==
    {<<>>} \cup {<<a>> : a \in PackageIds}
           \cup {<<a, b>> : a \in PackageIds, b \in PackageIds}

\* list.remove(x): the list without the first x
RECURSIVE ListRemove(_, _)
ListRemove(l, x) ==
    IF l = <<>> THEN l
    ELSE IF Head(l) = x THEN Tail(l)
    ELSE <<Head(l)>> \o ListRemove(Tail(l), x)

\* _add_package appending without looking for the id in the list
RepoApi_add_package_unchecked(r, pkgid) ==
    [r EXCEPT !.packages = Append(@, pkgid), !.package_count = @ + 1]

\* RepoApi._add_package(repo, p): the id is appended and counted unless the
\* repo's packages hold it
RepoApi_add_package(r, pkgid) ==
    IF pkgid \notin Range(r.packages)
    THEN [r EXCEPT !.packages = Append(@, pkgid), !.package_count = @ + 1]
    ELSE r

\* RepoApi.add_package(repoid, packageids): _add_package of each, in order
RECURSIVE RepoApi_add_packages(_, _)
RepoApi_add_packages(r, packageids) ==
    IF packageids = <<>> THEN r
    ELSE RepoApi_add_packages(RepoApi_add_package(r, Head(packageids)),
                              Tail(packageids))

\* the loop of RepoApi.remove_packages: a package the repo does not hold is
\* skipped, one it holds is removed from the list and the count lowered
RECURSIVE RepoApi_remove_each(_, _)
RepoApi_remove_each(r, pkgobjs) ==
    IF pkgobjs = <<>> THEN r
    ELSE LET id == Head(pkgobjs)
         IN  RepoApi_remove_each(
                 IF id \notin Range(r.packages) THEN r
                 ELSE [r EXCEPT !.packages = ListRemove(@, id),
                                !.package_count = @ - 1],
                 Tail(pkgobjs))

\* RepoApi.remove_packages(repoid, pkgobjs): nothing for an empty list;
\* otherwise the repo is read, the loop run and the repo saved
RepoApi_remove_packages(r, pkgobjs) ==
    IF pkgobjs = <<>> THEN r ELSE RepoApi_remove_each(r, pkgobjs)

\* --------------------------------------------- RepoApi: package groups
GroupIds == 1..MaxGroups
PackageNames == {"pulp-test-package"}

\* a package group: whether it is immutable, and its default package names
PackageGroups ==
    [immutable : BOOLEAN, default_package_names : SUBSET PackageNames]

\* the mappings a repo's packagegroups can be
GroupMaps == UNION {[S -> PackageGroups] : S \in SUBSET GroupIds}

\* what an operation leaves stored, and the exception it raised
Saved(r) == [r |-> r, raised |-> "none"]
Refused(r) == [r |-> r, raised |-> "PulpException"]

\* RepoApi.update(repo_data): every key of repo_data that the stored repo
\* has replaces the stored value, then the repo is saved; id, feed,
\* sync_schedule, use_symlinks and relative_path, handled apart, are not
\* among the keys modelled
RepoApi_update(r, repo_data) ==
    Saved([key \in DOMAIN r |->
              IF key \in DOMAIN repo_data THEN repo_data[key] ELSE r[key]])

\* RepoApi.create_packagegroup(repoid, group_id, ...): a new mutable group
RepoApi_create_packagegroup(r, group_id) ==
    IF group_id \in DOMAIN r.packagegroups THEN Refused(r)
    ELSE Saved([r EXCEPT !.packagegroups =
                   Put(@, group_id, [immutable |-> FALSE,
                                     default_package_names |-> {}])])

\* RepoApi.delete_packagegroup(repoid, groupid)
RepoApi_delete_packagegroup(r, groupid) ==
    IF groupid \notin DOMAIN r.packagegroups THEN Refused(r)
    ELSE IF r.packagegroups[groupid].immutable THEN Refused(r)
    ELSE Saved([r EXCEPT !.packagegroups = Drop(@, groupid)])

\* RepoApi.update_packagegroup(repoid, pg)
RepoApi_update_packagegroup(r, pg_id, pg) ==
    IF pg_id \in DOMAIN r.packagegroups /\ r.packagegroups[pg_id].immutable
    THEN Refused(r)
    ELSE Saved([r EXCEPT !.packagegroups = Put(@, pg_id, pg)])

\* the loop of RepoApi.update_packagegroups over the repo read: the groups
\* replaced so far, or the exception raised at an immutable stored group
RECURSIVE RepoApi_update_each(_, _)
RepoApi_update_each(r, pglist) ==
    IF pglist = <<>> THEN Saved(r)
    ELSE LET item == Head(pglist)
         IN  IF /\ item.id \in DOMAIN r.packagegroups
                /\ r.packagegroups[item.id].immutable
             THEN Refused(r)
             ELSE RepoApi_update_each(
                      [r EXCEPT !.packagegroups = Put(@, item.id, item.pg)],
                      Tail(pglist))

\* RepoApi.update_packagegroups(repoid, pglist): saved after the loop only
RepoApi_update_packagegroups(r, pglist) ==
    LET done == RepoApi_update_each(r, pglist)
    IN  IF done.raised = "none" THEN done ELSE Refused(r)

\* RepoApi.add_packages_to_group(repoid, groupid, pkg_names), gtype left at
\* "default"; the repo is stored by self.update(repo)
RepoApi_add_packages_to_group(r, groupid, pkg_names) ==
    IF groupid \notin DOMAIN r.packagegroups THEN Refused(r)
    ELSE IF r.packagegroups[groupid].immutable THEN Refused(r)
    ELSE RepoApi_update(r,
             [r EXCEPT !.packagegroups[groupid].default_package_names =
                           @ \cup pkg_names])

\* RepoApi.delete_package_from_group(repoid, groupid, pkg_name)
RepoApi_delete_package_from_group(r, groupid, pkg_name) ==
    IF groupid \notin DOMAIN r.packagegroups THEN Refused(r)
    ELSE IF r.packagegroups[groupid].immutable THEN Refused(r)
    ELSE IF pkg_name \notin r.packagegroups[groupid].default_package_names
    THEN Refused(r)
    ELSE Saved([r EXCEPT !.packagegroups[groupid].default_package_names =
                             @ \ {pkg_name}])

\* ---------------------------------------------------------- merge_settings
\* a settings value: a plain value, or a nested mapping of plain values
Leaf(v) == [is_dict |-> FALSE, value |-> v, items |-> <<>>]
Mapping(d) == [is_dict |-> TRUE, value |-> "", items |-> d]

SubKeys == {1, 2}
SubSettings(v) == UNION {[S -> {Leaf(v)}] : S \in SUBSET SubKeys}
Entries(v) == {Leaf(v)} \cup {Mapping(d) : d \in SubSettings(v)}
\* the settings mappings whose plain values are all v
Settings(v) == UNION {[S -> Entries(v)] : S \in SUBSET (1..MergeKeys)}

\* a merge that updates default with override, one level deep
merge_settings_shallow(default, override) ==
    [key \in (DOMAIN default) \cup (DOMAIN override) |->
        IF key \in DOMAIN override THEN override[key] ELSE default[key]]

\* merge_settings(default, override): override merged over default, nested
\* mappings merged key by key
RECURSIVE merge_settings(_, _)
merge_settings(default, override) ==
    [key \in (DOMAIN default) \cup (DOMAIN override) |->
        IF key \notin DOMAIN override THEN default[key]
        ELSE IF key \notin DOMAIN default THEN override[key]
        ELSE IF default[key].is_dict /\ override[key].is_dict
        THEN Mapping(merge_settings(default[key].items, override[key].items))
        ELSE override[key]]

\* ---------------------------------------------------------------- actions
Set(q) ==
    /\ task' = q.task
    /\ waiting' = q.waiting
    /\ storage' = q.storage

InitOf(configs) ==
    /\ up = TRUE
    /\ config \in configs
    /\ max_concurrency = concurrency_threshold(config)
    /\ task = <<>>
    /\ waiting = <<>>
    /\ storage = <<>>
    /\ now = 0
    /\ next_id = 1
    /\ by_unique = {}
    /\ last = NoCall
    /\ calls = <<>>
    /\ thread = [t \in Threads |-> Idle]
    /\ lock = None
    /\ attached = <<>>
    /\ remote = AsyncAgent_getattr("Repo")
    /\ objectdb = Repo_new

\* a submitter calls run_async; ids are opaque, so the Task built is given
\* the first id no admitted task has (a rejected Task is discarded with its id)
RunAsync(max, keys, timeouts, uniques) ==
    /\ up
    /\ next_id <= max
    /\ \E key \in keys, timeout \in timeouts, unique \in uniques :
          LET r == run_async(Q, next_id, key, timeout, unique)
          IN  /\ Set(r.q)
              /\ last' = [op |-> "enqueue", id |-> next_id, key |-> key,
                          unique |-> unique, timeout |-> timeout,
                          ret |-> r.ret]
              /\ by_unique' = IF unique /\ next_id \in DOMAIN r.q.task
                              THEN by_unique \cup {next_id} ELSE by_unique
    /\ next_id' = IF next_id \in DOMAIN task' THEN next_id + 1 ELSE next_id
    /\ UNCHANGED <<up, max_concurrency, now, config, calls, thread, lock,
                   attached, remote, objectdb>>

\* the periodic dispatch cycle of the queue
Dispatch ==
    /\ up
    /\ TaskQueue_lock_free(lock)
    /\ Set(TaskQueue_dispatch(Q, max_concurrency, now))
    /\ last' = NoCall
    /\ UNCHANGED <<up, max_concurrency, now, config, next_id, by_unique, calls,
                   thread, lock,
                   attached, remote, objectdb>>

\* the callable of a running task that awaits no remote reply returns
ExecutorSucceeds ==
    /\ up
    /\ TaskQueue_lock_free(lock)
    /\ \E id \in Running(Q), v \in RetVals :
          id \notin DOMAIN calls /\ Set(Task_succeeded(Q, id, v))
    /\ last' = NoCall
    /\ UNCHANGED <<up, max_concurrency, now, config, next_id, by_unique, calls,
                   thread, lock,
                   attached, remote, objectdb>>

\* the callable of a running task that awaits no remote reply raises
ExecutorFails ==
    /\ up
    /\ \E id \in Running(Q) :
          /\ id \notin DOMAIN calls
          /\ Set(Task_failed(Q, id, Exc("Error"), "traceback"))
    /\ last' = NoCall
    /\ UNCHANGED <<up, max_concurrency, now, config, next_id, by_unique, calls,
                   thread, lock,
                   attached, remote, objectdb>>

\* the deadline of a running task with a timeout elapses
TimeoutElapsed ==
    /\ up
    /\ \E id \in Running(Q) :
          /\ task[id].timeout
          /\ Set(Task_timed_out(Q, id))
          /\ last' = [op |-> "timeout", any |-> id]
    /\ UNCHANGED <<up, max_concurrency, now, config, next_id, by_unique, calls,
                   thread, lock,
                   attached, remote, objectdb>>

\* a caller cancels a task of the registry
Cancel ==
    /\ up
    /\ \E id \in DOMAIN task : Set(cancel_async(Q, id))
    /\ last' = NoCall
    /\ UNCHANGED <<up, max_concurrency, now, config, next_id, by_unique, calls,
                   thread, lock,
                   attached, remote, objectdb>>

\* the executor confirms that a running task asked to cancel has stopped
CancelConfirmed ==
    /\ up
    /\ \E id \in Running(Q) : task[id].cancel_requested /\ Set(Task_canceled(Q, id))
    /\ last' = NoCall
    /\ UNCHANGED <<up, max_concurrency, now, config, next_id, by_unique, calls,
                   thread, lock,
                   attached, remote, objectdb>>

\* a caller reschedules a task of the registry to a later due time
Reschedule ==
    /\ up
    /\ \E id \in DOMAIN task, due \in Times :
          due > now /\ Set(reschedule_async(Q, id, due))
    /\ last' = NoCall
    /\ UNCHANGED <<up, max_concurrency, now, config, next_id, by_unique, calls,
                   thread, lock,
                   attached, remote, objectdb>>

\* the reply consumer delivers a success reply correlated to some task id
\* (of a task of the registry or not)
ReplySucceeded(max) ==
    /\ up
    /\ \E id \in 1..max, v \in RetVals :
          /\ Set(ReplyHandler_succeeded(Q, [any |-> id, retval |-> v]))
          /\ last' = [op |-> "reply", any |-> id]
    /\ UNCHANGED <<up, max_concurrency, now, config, next_id, by_unique, calls,
                   thread, lock,
                   attached, remote, objectdb>>

\* the reply consumer delivers a failure reply correlated to some task id
ReplyFailed(max) ==
    /\ up
    /\ \E id \in 1..max, e \in ExVals :
          /\ Set(ReplyHandler_failed(Q, [any |-> id, exval |-> e]))
          /\ last' = [op |-> "reply", any |-> id]
    /\ UNCHANGED <<up, max_concurrency, now, config, next_id, by_unique, calls,
                   thread, lock,
                   attached, remote, objectdb>>

\* the process dies: the in-memory registry and the invocations awaiting a
\* reply are gone, the collection stays
Crash ==
    /\ up
    /\ up' = FALSE
    /\ max_concurrency' = 0
    /\ Set(EmptyRegistry(storage))
    /\ by_unique' = {}
    /\ calls' = <<>>
    /\ last' = NoCall
    /\ UNCHANGED <<now, config, next_id, thread, lock,
                   attached, remote, objectdb>>

\* the process starts: initialize()
Initialize ==
    /\ ~up
    /\ up' = TRUE
    /\ max_concurrency' = concurrency_threshold(config)
    /\ \E found \in Orders(DOMAIN storage) :
          LET q == initialize(storage, found)
          IN  Set(q) /\ by_unique' = DOMAIN q.task
    /\ last' = [op |-> "initialize", had |-> DOMAIN storage]
    /\ UNCHANGED <<now, config, next_id, calls, thread, lock,
                   attached, remote, objectdb>>

Tick ==
    /\ now < MaxTime
    /\ now' = now + 1
    /\ last' = NoCall
    /\ UNCHANGED <<up, max_concurrency, task, waiting, storage, config, next_id,
                   by_unique, calls, thread, lock,
                   attached, remote, objectdb>>

\* the code of a running task invokes a method of a remote agent, with a
\* deadline; the task then awaits the reply
Invoke ==
    /\ up
    /\ \E id \in Running(Q), d \in 1..MaxDeadline :
          /\ id \notin DOMAIN calls
          /\ now + d + Slack <= MaxClock
          /\ calls' = Put(calls, id, RemoteMethod_call(id, d, now))
    /\ last' = NoCall
    /\ UNCHANGED <<up, max_concurrency, task, waiting, storage, now, config,
                   next_id, by_unique, thread, lock,
                   attached, remote, objectdb>>

\* the reply consumer delivers a success reply with some correlation
\* payload: the reply to an invocation, a second or late one, or one of an
\* id the registry does not hold
DeliverSucceeded(max) ==
    /\ up
    /\ \E any \in 1..max, v \in RetVals :
          LET reply == [any |-> any, retval |-> v]
          IN  /\ Set(ReplyHandler_succeeded(Q, reply))
              /\ calls' = Resolved(calls, any)
              /\ last' = [op |-> "succeeded", any |-> any, retval |-> v,
                          outcome |-> ReplyHandler_outcome(Q, reply)]
    /\ UNCHANGED <<up, max_concurrency, now, config, next_id, by_unique,
                   thread, lock,
                   attached, remote, objectdb>>

\* the reply consumer delivers a failure reply with some correlation payload
DeliverFailed(max) ==
    /\ up
    /\ \E any \in 1..max, e \in ExVals :
          LET reply == [any |-> any, exval |-> e]
          IN  /\ Set(ReplyHandler_failed(Q, reply))
              /\ calls' = Resolved(calls, any)
              /\ last' = [op |-> "failed", any |-> any, exval |-> e,
                          outcome |-> ReplyHandler_outcome(Q, reply)]
    /\ UNCHANGED <<up, max_concurrency, now, config, next_id, by_unique,
                   thread, lock,
                   attached, remote, objectdb>>

\* the deadline of an invocation has passed with no reply: the watchdog
\* has its failure reply delivered
WatchdogExpires ==
    /\ up
    /\ \E id \in DOMAIN calls :
          /\ WatchDog_overdue(calls[id], now)
          /\ Set(ReplyHandler_failed(Q, WatchDog_reply(calls[id])))
          /\ calls' = Drop(calls, id)
          /\ last' = [op |-> "watchdog", owner |-> id, any |-> calls[id].any,
                      issued |-> calls[id].issued,
                      deadline |-> calls[id].deadline]
    /\ UNCHANGED <<up, max_concurrency, now, config, next_id, by_unique,
                   thread, lock,
                   attached, remote, objectdb>>

\* the clock, where the watchdog is at most Slack ticks late
ClockTick ==
    /\ now < MaxClock
    /\ \A id \in DOMAIN calls :
          now < calls[id].issued + calls[id].deadline + Slack
    /\ now' = now + 1
    /\ last' = NoCall
    /\ UNCHANGED <<up, max_concurrency, task, waiting, storage, config, next_id,
                   by_unique, calls, thread, lock,
                   attached, remote, objectdb>>

\* the callable of a task that timed out, interrupted at best effort,
\* returns or raises after the deadline
ExecutorReturnsLate ==
    /\ up
    /\ \E id \in DOMAIN task, ok \in BOOLEAN :
          /\ task[id].state = "timed_out"
          /\ Set(IF ok THEN Task_succeeded(Q, id, 42)
                 ELSE Task_failed(Q, id, Exc("Error"), "traceback"))
          /\ last' = [op |-> "late", any |-> id, ok |-> ok]
    /\ UNCHANGED <<up, max_concurrency, now, config, next_id, by_unique, calls,
                   thread, lock,
                   attached, remote, objectdb>>

\* a caller asks RepoApi for the sync of a repository
Sync(max, keys) ==
    /\ up
    /\ next_id <= max
    /\ \E repo \in keys, has_source \in BOOLEAN :
          LET r == RepoApi_sync(Q, next_id, repo, has_source, FALSE)
          IN  /\ Set(r.q)
              /\ last' = [op |-> "sync", id |-> next_id, key |-> repo,
                          ret |-> r.ret, raised |-> r.raised]
              /\ by_unique' = IF next_id \in DOMAIN r.q.task
                              THEN by_unique \cup {next_id} ELSE by_unique
    /\ next_id' = IF next_id \in DOMAIN task' THEN next_id + 1 ELSE next_id
    /\ UNCHANGED <<up, max_concurrency, now, config, calls, thread, lock,
                   attached, remote, objectdb>>

\* a caller asks RepoApi for the clone of a repository
Clone(max, keys) ==
    /\ up
    /\ next_id <= max
    /\ \E repo \in keys :
          LET r == RepoApi_clone(Q, next_id, repo, FALSE)
          IN  /\ Set(r.q)
              /\ last' = [op |-> "clone", id |-> next_id, key |-> CloneKey(repo),
                          ret |-> r.ret, raised |-> r.raised]
              /\ by_unique' = IF next_id \in DOMAIN r.q.task
                              THEN by_unique \cup {next_id} ELSE by_unique
    /\ next_id' = IF next_id \in DOMAIN task' THEN next_id + 1 ELSE next_id
    /\ UNCHANGED <<up, max_concurrency, now, config, calls, thread, lock,
                   attached, remote, objectdb>>

\* a submitter hands enqueue a Task that is already waiting or running
Resubmit ==
    /\ up
    /\ \E id \in DOMAIN task, unique \in BOOLEAN :
          /\ task[id].state \in Active
          /\ LET r == enqueue(Q, id, task[id], unique)
             IN  /\ Set(r.q)
                 /\ last' = [op |-> "enqueue", id |-> id, key |-> task[id].key,
                             unique |-> unique, timeout |-> task[id].timeout,
                             ret |-> r.ret]
    /\ UNCHANGED <<up, max_concurrency, now, config, next_id, by_unique, calls,
                   thread, lock,
                   attached, remote, objectdb>>

\* the crontab entry of the scheduled sync of a repository comes due
ScheduledSync(keys) ==
    /\ \E repo \in keys :
          LET m == main(Q, repo)
          IN  /\ Set(m.q)
              /\ last' = [op |-> "scheduled_sync", repo |-> repo,
                          enqueues |-> m.enqueues, runs |-> m.runs]
    /\ UNCHANGED <<up, max_concurrency, now, config, next_id, by_unique, calls,
                   thread, lock,
                   attached, remote, objectdb>>

\* a caller cancels a task of the registry; the call is kept in `last`
CancelCall ==
    /\ up
    /\ \E id \in DOMAIN task :
          /\ Set(cancel_async(Q, id))
          /\ last' = [op |-> "cancel", id |-> id, was |-> task[id].state]
    /\ UNCHANGED <<up, max_concurrency, now, config, next_id, by_unique, calls,
                   thread, lock,
                   attached, remote, objectdb>>

\* the callable of a running task that awaits no remote reply raises; the
\* error is kept in `last`
ExecutorRaises ==
    /\ up
    /\ \E id \in Running(Q) :
          /\ id \notin DOMAIN calls
          /\ Set(Task_failed(Q, id, Exc("Error"), "traceback"))
          /\ last' = [op |-> "raised", id |-> id, exception |-> Exc("Error")]
    /\ UNCHANGED <<up, max_concurrency, now, config, next_id, by_unique, calls,
                   thread, lock,
                   attached, remote, objectdb>>

\* a caller reschedules a task of the registry to a later due time among
\* `times`
RescheduleTo(times) ==
    /\ up
    /\ \E id \in DOMAIN task, due \in times :
          due > now /\ Set(reschedule_async(Q, id, due))
    /\ last' = NoCall
    /\ UNCHANGED <<up, max_concurrency, now, config, next_id, by_unique, calls,
                   thread, lock,
                   attached, remote, objectdb>>

\* the clock, up to max
Clock(max) ==
    /\ now < max
    /\ now' = now + 1
    /\ last' = NoCall
    /\ UNCHANGED <<up, max_concurrency, task, waiting, storage, config, next_id,
                   by_unique, calls, thread, lock,
                   attached, remote, objectdb>>

\* a thread calls run_async: the Task is built, enqueue is about to be
\* called
ThreadRunAsync(keys, uniques) ==
    /\ up
    /\ next_id <= MaxTasks
    /\ \E t \in Threads, key \in keys, unique \in uniques :
          /\ thread[t] = Idle
          /\ thread' = [thread EXCEPT ![t] =
                            [pc |-> "enqueue", id |-> next_id, key |-> key,
                             unique |-> unique]]
    /\ next_id' = next_id + 1
    /\ last' = NoCall
    /\ UNCHANGED <<up, max_concurrency, task, waiting, storage, now, config,
                   by_unique, calls, lock, attached, remote, objectdb>>

\* the thread enters TaskQueue.enqueue and takes the queue's lock
ThreadLocks ==
    /\ up
    /\ \E t \in Threads :
          /\ thread[t].pc = "enqueue"
          /\ TaskQueue_lock_free(lock)
          /\ lock' = t
          /\ thread' = [thread EXCEPT ![t].pc = "locked"]
    /\ last' = NoCall
    /\ UNCHANGED <<up, max_concurrency, task, waiting, storage, now, config,
                   next_id, by_unique, calls, attached, remote, objectdb>>

\* inside TaskQueue.enqueue the thread makes the uniqueness test
ThreadTests ==
    /\ up
    /\ \E t \in Threads :
          /\ thread[t].pc = "locked"
          /\ thread' = [thread EXCEPT ![t] =
                [pc |-> "tested", id |-> thread[t].id, key |-> thread[t].key,
                 unique |-> thread[t].unique,
                 exc |-> TaskQueue_enqueue(Q, thread[t].id,
                             Task_new(thread[t].key, FALSE),
                             thread[t].unique).exc]]
    /\ last' = NoCall
    /\ UNCHANGED <<up, max_concurrency, task, waiting, storage, now, config,
                   next_id, by_unique, calls, lock, attached, remote,
                   objectdb>>

\* the thread inserts the task, or raises, as the test it made says, gives
\* the lock back, and enqueue returns
ThreadReturns ==
    /\ up
    /\ \E t \in Threads :
          /\ thread[t].pc = "tested"
          /\ LET th == thread[t]
                 r == enqueue(Q, th.id, Task_new(th.key, FALSE),
                              th.unique /\ th.exc # "none")
             IN  /\ Set(r.q)
                 /\ last' = [op |-> "enqueue", id |-> th.id, key |-> th.key,
                             unique |-> th.unique, timeout |-> FALSE,
                             ret |-> r.ret]
                 /\ by_unique' = IF th.unique /\ th.id \in DOMAIN r.q.task
                                 THEN by_unique \cup {th.id} ELSE by_unique
          /\ thread' = [thread EXCEPT ![t] = Idle]
          /\ lock' = IF lock = t THEN None ELSE lock
    /\ UNCHANGED <<up, max_concurrency, now, config, next_id, calls, attached,
                   remote, objectdb>>

\* a thread cancels a task of the registry
ThreadCancel ==
    /\ up
    /\ TaskQueue_lock_free(lock)
    /\ \E t \in Threads, id \in DOMAIN task :
          /\ thread[t] = Idle
          /\ Set(cancel_async(Q, id))
          /\ last' = [op |-> "cancel", id |-> id, was |-> task[id].state]
    /\ UNCHANGED <<up, max_concurrency, now, config, next_id, by_unique, calls,
                   thread, lock,
                   attached, remote, objectdb>>

\* a thread looks a task id up
ThreadFind ==
    /\ up
    /\ TaskQueue_lock_free(lock)
    /\ \E t \in Threads, any \in 1..MaxTasks :
          /\ thread[t] = Idle
          /\ last' = [op |-> "find", any |-> any, found |-> find_async(Q, any)]
    /\ UNCHANGED <<up, max_concurrency, task, waiting, storage, now, config,
                   next_id, by_unique, calls, thread, lock,
                   attached, remote, objectdb>>

\* the settings module, loaded once, merges an override over the defaults
MergeSettings ==
    /\ last = NoCall
    /\ \E default \in Settings("value"), override \in Settings("VALUE") :
          last' = [op |-> "merge", default |-> default, override |-> override,
                   merged |-> merge_settings(default, override)]
    /\ UNCHANGED <<up, max_concurrency, task, waiting, storage, now, config,
                   next_id, by_unique, calls, thread, lock,
                   attached, remote, objectdb>>

\* a caller reschedules a task of the registry; the call is kept in `last`
RescheduleCall(times) ==
    /\ up
    /\ \E id \in DOMAIN task, due \in times :
          /\ due > now
          /\ Set(reschedule_async(Q, id, due))
          /\ last' = [op |-> "reschedule", id |-> id, due |-> due]
    /\ UNCHANGED <<up, max_concurrency, now, config, next_id, by_unique, calls,
                   thread, lock, attached, remote, objectdb>>

\* a caller lists the tasks of the queue by one of the five queries; the
\* query and the list returned are kept in `last`
QueryCall ==
    /\ up
    /\ \E r \in {[name |-> "waiting", res |-> waiting_async(Q)],
                  [name |-> "running", res |-> running_async(Q)],
                  [name |-> "incomplete", res |-> incomplete_async(Q)],
                  [name |-> "complete", res |-> complete_async(Q)],
                  [name |-> "all", res |-> all_async(Q)]} :
          /\ Set(r.res.q)
          /\ last' = [op |-> "query", name |-> r.name, ret |-> r.res.ret]
    /\ UNCHANGED <<up, max_concurrency, now, config, next_id, by_unique, calls,
                   thread, lock, attached, remote, objectdb>>

\* initialize(), step by step, in the thread that starts the process: the
\* fresh TaskQueue, then the first loop of _load_persisted_tasks: every
\* record found is listed and turned into a task
LoadFind ==
    /\ ~up
    /\ thread[1] = Idle
    /\ max_concurrency' = concurrency_threshold(config)
    /\ \E found \in Orders(DOMAIN storage) :
          /\ Set(EmptyRegistry(storage))
          /\ thread' = [thread EXCEPT ![1] =
                [pc |-> IF found = <<>> THEN "enqueue" ELSE "remove",
                 snapshot_ids |-> found,
                 tasks |-> [i \in Range(found) |->
                               TaskSnapshot_to_task(storage[i])],
                 todo |-> found,
                 had |-> DOMAIN storage]]
    /\ by_unique' = {}
    /\ last' = NoCall
    /\ UNCHANGED <<up, now, config, next_id, calls, lock, attached, remote,
                   objectdb>>

\* the second loop: collection.remove of the next id listed; a last_error
\* that is not ok raises and initialize() ends with that exception
LoadRemove ==
    /\ ~up
    /\ thread[1].pc = "remove"
    /\ \E ok \in BOOLEAN :
          LET th == thread[1]
              id == Head(th.snapshot_ids)
          IN  IF ok
              THEN /\ storage' = Drop(storage, id)
                   /\ thread' = [thread EXCEPT ![1] =
                         [th EXCEPT !.snapshot_ids = Tail(th.snapshot_ids),
                                    !.pc = IF Tail(th.snapshot_ids) = <<>>
                                           THEN "enqueue" ELSE "remove"]]
                   /\ last' = NoCall
              ELSE /\ storage' = storage
                   /\ thread' = [thread EXCEPT ![1] = Idle]
                   /\ last' = [op |-> "load_raised", had |-> th.had]
    /\ UNCHANGED <<up, max_concurrency, task, waiting, now, config, next_id,
                   by_unique, calls, lock, attached, remote, objectdb>>

\* the third loop: enqueue(task) of the next task built; what enqueue
\* returns is dropped
LoadEnqueue ==
    /\ ~up
    /\ thread[1].pc = "enqueue"
    /\ thread[1].todo # <<>>
    /\ LET th == thread[1]
           id == Head(th.todo)
           r == enqueue(Q, id, th.tasks[id], TRUE)
       IN  /\ Set(r.q)
           /\ by_unique' = DOMAIN r.q.task
           /\ thread' = [thread EXCEPT ![1] = [th EXCEPT !.todo = Tail(th.todo)]]
    /\ last' = NoCall
    /\ UNCHANGED <<up, max_concurrency, now, config, next_id, calls, lock,
                   attached, remote, objectdb>>

\* _load_persisted_tasks and initialize() return: the process is up
LoadReturns ==
    /\ ~up
    /\ thread[1].pc = "enqueue"
    /\ thread[1].todo = <<>>
    /\ up' = TRUE
    /\ thread' = [thread EXCEPT ![1] = Idle]
    /\ last' = [op |-> "loaded", had |-> thread[1].had]
    /\ UNCHANGED <<max_concurrency, task, waiting, storage, now, config,
                   next_id, by_unique, calls, lock, attached, remote, objectdb>>

\* a thread calls RepoApi.sync and is through its run_async: the task is
\* enqueued; set_progress and set_synchronizer are still to be called when
\* the repository has a source
ThreadSync(keys) ==
    /\ up
    /\ next_id <= MaxTasks
    /\ \E t \in Threads, repo_id \in keys, has_source \in BOOLEAN :
          LET r == run_async(Q, next_id, repo_id, FALSE, TRUE)
          IN  /\ thread[t] = Idle
              /\ Set(r.q)
              /\ thread' = [thread EXCEPT ![t] =
                    IF has_source
                    THEN [pc |-> "set_progress", op |-> "sync",
                          id |-> next_id, task |-> r.ret]
                    ELSE Idle]
              /\ by_unique' = IF next_id \in DOMAIN r.q.task
                              THEN by_unique \cup {next_id} ELSE by_unique
              /\ attached' = IF next_id \in DOMAIN r.q.task
                             THEN Put(attached, next_id, {}) ELSE attached
    /\ next_id' = IF next_id \in DOMAIN task' THEN next_id + 1 ELSE next_id
    /\ last' = NoCall
    /\ UNCHANGED <<up, max_concurrency, now, config, calls, lock, remote,
                   objectdb>>

\* a thread calls RepoApi.clone and is through its run_async
ThreadClone(keys) ==
    /\ up
    /\ next_id <= MaxTasks
    /\ \E t \in Threads, repo_id \in keys :
          LET r == run_async(Q, next_id, CloneKey(repo_id), FALSE, TRUE)
          IN  /\ thread[t] = Idle
              /\ Set(r.q)
              /\ thread' = [thread EXCEPT ![t] =
                    [pc |-> "set_progress", op |-> "clone",
                     id |-> next_id, task |-> r.ret]]
              /\ by_unique' = IF next_id \in DOMAIN r.q.task
                              THEN by_unique \cup {next_id} ELSE by_unique
              /\ attached' = IF next_id \in DOMAIN r.q.task
                             THEN Put(attached, next_id, {}) ELSE attached
    /\ next_id' = IF next_id \in DOMAIN task' THEN next_id + 1 ELSE next_id
    /\ last' = NoCall
    /\ UNCHANGED <<up, max_concurrency, now, config, calls, lock, remote,
                   objectdb>>

\* the thread calls task.set_progress('progress_callback', ...) on what
\* run_async returned; on None the call raises; clone then returns the task
ThreadSetProgress ==
    /\ \E t \in Threads :
          /\ thread[t].pc = "set_progress"
          /\ LET th == thread[t]
             IN  IF th.task = None
                 THEN /\ thread' = [thread EXCEPT ![t] = Idle]
                      /\ attached' = attached
                      /\ last' = [op |-> th.op, id |-> th.id, ret |-> None,
                                  raised |-> "AttributeError"]
                 ELSE /\ attached' = [attached EXCEPT ![th.id] =
                                         @ \cup {"progress_callback"}]
                      /\ thread' = [thread EXCEPT ![t] =
                            IF th.op = "sync"
                            THEN [th EXCEPT !.pc = "set_synchronizer"]
                            ELSE Idle]
                      /\ last' = NoCall
    /\ UNCHANGED <<up, max_concurrency, task, waiting, storage, now, config,
                   next_id, by_unique, calls, lock, remote, objectdb>>

\* the thread calls task.set_synchronizer(synchronizer); sync returns the task
ThreadSetSynchronizer ==
    /\ \E t \in Threads :
          /\ thread[t].pc = "set_synchronizer"
          /\ attached' = [attached EXCEPT ![thread[t].id] =
                             @ \cup {"synchronizer"}]
          /\ thread' = [thread EXCEPT ![t] = Idle]
    /\ last' = NoCall
    /\ UNCHANGED <<up, max_concurrency, task, waiting, storage, now, config,
                   next_id, by_unique, calls, lock, remote, objectdb>>

\* a caller takes a remote class from the agent
AgentGetattr ==
    /\ \E name \in ClassNames : remote' = AsyncAgent_getattr(name)
    /\ last' = [op |-> "class", bound |-> Nothing]
    /\ UNCHANGED <<up, max_concurrency, task, waiting, storage, now, config,
                   next_id, by_unique, calls, thread, lock, attached, objectdb>>

\* a caller binds the remote class to a task by calling it
RemoteClassCall ==
    /\ \E id \in 1..MaxTasks, options \in SUBSET Options :
          /\ remote' = RemoteClass_call(remote, id, options)
          /\ last' = [op |-> "bind", bound |-> Some(id)]
    /\ UNCHANGED <<up, max_concurrency, task, waiting, storage, now, config,
                   next_id, by_unique, calls, thread, lock, attached, objectdb>>

\* a caller looks a name up on the remote class; what the lookup gives is
\* kept in `last`, with the task the class was last bound to, if any
RemoteClassLookup ==
    /\ \E name \in MethodNames :
          last' = [op |-> "lookup", name |-> name,
                   bound |-> IF last.op = "none" THEN Nothing ELSE last.bound,
                   got |-> RemoteClass_attribute(remote, name, 0)]
    /\ UNCHANGED <<up, max_concurrency, task, waiting, storage, now, config,
                   next_id, by_unique, calls, thread, lock, attached, remote,
                   objectdb>>

\* a caller adds packages to the repo; the repo is saved after the loop
AddPackage ==
    /\ \E packageids \in PackageLists :
          /\ objectdb' = RepoApi_add_packages(objectdb, packageids)
          /\ last' = [op |-> "add_package", ids |-> packageids]
    /\ UNCHANGED <<up, max_concurrency, task, waiting, storage, now, config,
                   next_id, by_unique, calls, thread, lock, attached, remote>>

\* a caller removes packages from the repo; the repo is saved after the loop
RemovePackages ==
    /\ \E pkgobjs \in PackageLists :
          /\ objectdb' = RepoApi_remove_packages(objectdb, pkgobjs)
          /\ last' = [op |-> "remove_packages", ids |-> pkgobjs]
    /\ UNCHANGED <<up, max_concurrency, task, waiting, storage, now, config,
                   next_id, by_unique, calls, thread, lock, attached, remote>>

\* the lists of groups a caller passes to update_packagegroups
GroupLists ==
    {<<>>} \cup {<<[id |-> g, pg |-> pg]>> : g \in GroupIds, pg \in PackageGroups}
           \cup {<<[id |-> 1, pg |-> pg1], [id |-> g, pg |-> pg2]>> :
                     g \in GroupIds \ {1},
                     pg1 \in PackageGroups, pg2 \in PackageGroups}

\* the operations on the package groups of the repo: each leaves in `last`
\* the groups it was asked to remove, replace or modify and the exception
\* it raised
CreatePackagegroup ==
    /\ \E g \in GroupIds :
          LET done == RepoApi_create_packagegroup(objectdb, g)
          IN  /\ objectdb' = done.r
              /\ last' = [op |-> "create_packagegroup", targets |-> {},
                          raised |-> done.raised]
    /\ UNCHANGED <<up, max_concurrency, task, waiting, storage, now, config,
                   next_id, by_unique, calls, thread, lock, attached, remote>>

DeletePackagegroup ==
    /\ \E g \in GroupIds :
          LET done == RepoApi_delete_packagegroup(objectdb, g)
          IN  /\ objectdb' = done.r
              /\ last' = [op |-> "delete_packagegroup", targets |-> {g},
                          raised |-> done.raised]
    /\ UNCHANGED <<up, max_concurrency, task, waiting, storage, now, config,
                   next_id, by_unique, calls, thread, lock, attached, remote>>

UpdatePackagegroup ==
    /\ \E g \in GroupIds, pg \in PackageGroups :
          LET done == RepoApi_update_packagegroup(objectdb, g, pg)
          IN  /\ objectdb' = done.r
              /\ last' = [op |-> "update_packagegroup", targets |-> {g},
                          raised |-> done.raised]
    /\ UNCHANGED <<up, max_concurrency, task, waiting, storage, now, config,
                   next_id, by_unique, calls, thread, lock, attached, remote>>

UpdatePackagegroups ==
    /\ \E pglist \in GroupLists :
          LET done == RepoApi_update_packagegroups(objectdb, pglist)
          IN  /\ objectdb' = done.r
              /\ last' = [op |-> "update_packagegroups", targets |-> {item.id : item \in Range(pglist)},
                          raised |-> done.raised]
    /\ UNCHANGED <<up, max_concurrency, task, waiting, storage, now, config,
                   next_id, by_unique, calls, thread, lock, attached, remote>>

AddPackagesToGroup ==
    /\ \E g \in GroupIds, pkg_names \in (SUBSET PackageNames) \ {{}} :
          LET done == RepoApi_add_packages_to_group(objectdb, g, pkg_names)
          IN  /\ objectdb' = done.r
              /\ last' = [op |-> "add_packages_to_group", targets |-> {g},
                          raised |-> done.raised]
    /\ UNCHANGED <<up, max_concurrency, task, waiting, storage, now, config,
                   next_id, by_unique, calls, thread, lock, attached, remote>>

DeletePackageFromGroup ==
    /\ \E g \in GroupIds, pkg_name \in PackageNames :
          LET done == RepoApi_delete_package_from_group(objectdb, g, pkg_name)
          IN  /\ objectdb' = done.r
              /\ last' = [op |-> "delete_package_from_group", targets |-> {g},
                          raised |-> done.raised]
    /\ UNCHANGED <<up, max_concurrency, task, waiting, storage, now, config,
                   next_id, by_unique, calls, thread, lock, attached, remote>>

\* a caller updates the repo with repo_data that names its packagegroups:
\* the groups asked to change are those the data drops or gives another value
Update ==
    /\ \E groups \in GroupMaps :
          LET done == RepoApi_update(objectdb, [key \in {"packagegroups"} |-> groups])
          IN  /\ objectdb' = done.r
              /\ last' = [op |-> "update", targets |-> {g \in DOMAIN objectdb.packagegroups :
                              g \notin DOMAIN groups
                              \/ groups[g] # objectdb.packagegroups[g]},
                          raised |-> done.raised]
    /\ UNCHANGED <<up, max_concurrency, task, waiting, storage, now, config,
                   next_id, by_unique, calls, thread, lock, attached, remote>>

\* ---------------------------------------------------------- specifications
\* admission, uniqueness, persistence and recovery: tasks of every key,
\* submitted with and without unique, none with a timeout or a schedule
Init == InitOf(Configs)

Next ==
    \/ RunAsync(MaxTasks, Keys, {FALSE}, BOOLEAN)
    \/ Dispatch
    \/ ExecutorSucceeds
    \/ ExecutorFails
    \/ Cancel
    \/ CancelConfirmed
    \/ ReplySucceeded(MaxTasks)
    \/ ReplyFailed(MaxTasks)
    \/ Crash
    \/ Initialize

Spec == Init /\ [][Next]_vars

\* the task life cycle: every event, tasks of one key submitted with a
\* timeout, rescheduling
InitLife == InitOf({Config(1, 0)})

NextLife ==
    \/ RunAsync(MaxTasks, {1}, {TRUE}, {FALSE})
    \/ Dispatch
    \/ ExecutorSucceeds
    \/ ExecutorFails
    \/ TimeoutElapsed
    \/ Cancel
    \/ CancelConfirmed
    \/ Reschedule
    \/ ReplySucceeded(MaxTasks)
    \/ ReplyFailed(MaxTasks)
    \/ Crash
    \/ Initialize
    \/ Tick

SpecLife == InitLife /\ [][NextLife]_vars

\* the dispatch order: more tasks, of one key, that end by returning or by
\* being canceled; rescheduling
InitFifo == InitOf(Configs)

NextFifo ==
    \/ RunAsync(MaxFifo, {1}, {FALSE}, {FALSE})
    \/ Dispatch
    \/ ExecutorSucceeds
    \/ Cancel
    \/ CancelConfirmed
    \/ Reschedule
    \/ Crash
    \/ Initialize
    \/ Tick

SpecFifo == InitFifo /\ [][NextFifo]_vars

\* remote invocations: tasks of one key that invoke a remote method and end
\* by a reply, by the watchdog or by being canceled
InitRmi == InitOf({Config(2, 0)})

NextRmi ==
    \/ RunAsync(MaxTasks, {1}, {FALSE}, {FALSE})
    \/ Dispatch
    \/ Invoke
    \/ DeliverSucceeded(MaxTasks)
    \/ DeliverFailed(MaxTasks)
    \/ WatchdogExpires
    \/ Cancel
    \/ CancelConfirmed
    \/ Crash
    \/ Initialize
    \/ ClockTick

SpecRmi == InitRmi /\ [][NextRmi]_vars

\* the watchdog: invocations that get a reply in time, late or never, where
\* the watchdog thread and the clock keep running
InitWatchdog == InitOf({Config(2, 0)})

NextWatchdog ==
    \/ RunAsync(MaxTasks, {1}, {FALSE}, {FALSE})
    \/ Dispatch
    \/ Invoke
    \/ DeliverSucceeded(MaxTasks)
    \/ WatchdogExpires
    \/ Crash
    \/ Initialize
    \/ ClockTick

SpecWatchdog ==
    /\ InitWatchdog
    /\ [][NextWatchdog]_vars
    /\ WF_vars(WatchdogExpires)
    /\ WF_vars(ClockTick)

\* the repository API: syncs and clones asked for, tasks handed to enqueue
\* again, scheduled syncs
InitApi == InitOf({Config(1, 0)})

NextApi ==
    \/ Sync(MaxTasks, Keys)
    \/ Clone(MaxTasks, Keys)
    \/ Resubmit
    \/ ScheduledSync(Keys)
    \/ Dispatch
    \/ ExecutorSucceeds
    \/ Crash
    \/ Initialize

SpecApi == InitApi /\ [][NextApi]_vars

\* timeouts: tasks with and without a timeout, callbacks and replies that
\* come after the deadline
InitTimeout == InitOf({Config(2, 0)})

NextTimeout ==
    \/ RunAsync(MaxTasks, {1}, BOOLEAN, {FALSE})
    \/ Dispatch
    \/ ExecutorSucceeds
    \/ ExecutorFails
    \/ TimeoutElapsed
    \/ ExecutorReturnsLate
    \/ DeliverSucceeded(MaxTasks)
    \/ DeliverFailed(MaxTasks)
    \/ Crash
    \/ Initialize

SpecTimeout == InitTimeout /\ [][NextTimeout]_vars

\* cancellation and failure, each call kept in `last`
InitCancel == InitOf({Config(1, 0), Config(2, 0)})

NextCancel ==
    \/ RunAsync(MaxTasks, {1}, {FALSE}, {FALSE})
    \/ Dispatch
    \/ ExecutorSucceeds
    \/ ExecutorRaises
    \/ CancelCall
    \/ CancelConfirmed
    \/ Crash
    \/ Initialize

SpecCancel == InitCancel /\ [][NextCancel]_vars

\* stale schedules: a schedule_threshold of one tick, due times the clock
\* runs past
InitSched == InitOf({ConfigOf(2, 0, 0, 1)})

NextSched ==
    \/ RunAsync(MaxTasks, {1}, {FALSE}, {FALSE})
    \/ RescheduleTo(1..MaxSched)
    \/ Dispatch
    \/ ExecutorSucceeds
    \/ Crash
    \/ Initialize
    \/ Clock(MaxSched)

SpecSched == InitSched /\ [][NextSched]_vars

\* rescheduling: waiting, running and complete tasks given a new due time
InitResched == InitOf({Config(1, 0)})

NextResched ==
    \/ RunAsync(MaxTasks, {1}, {FALSE}, {FALSE})
    \/ RescheduleCall(1..(MaxTime + 1))
    \/ Dispatch
    \/ ExecutorSucceeds
    \/ Clock(MaxTime + 1)

SpecResched == InitResched /\ [][NextResched]_vars

\* queries: tasks in every state, listed at any moment
InitQuery == InitOf({Config(1, 0)})

NextQuery ==
    \/ RunAsync(MaxTasks, {1}, BOOLEAN, {FALSE})
    \/ Dispatch
    \/ ExecutorSucceeds
    \/ ExecutorFails
    \/ TimeoutElapsed
    \/ Cancel
    \/ CancelConfirmed
    \/ Crash
    \/ Initialize
    \/ QueryCall

SpecQuery == InitQuery /\ [][NextQuery]_vars

\* recovery step by step: tasks of every key persisted, the process ends,
\* initialize() runs its three loops, a removal may fail
InitLoad == InitOf({Config(2, 0)})

NextLoad ==
    \/ RunAsync(MaxTasks, Keys, {FALSE}, BOOLEAN)
    \/ Dispatch
    \/ ExecutorSucceeds
    \/ Crash
    \/ LoadFind
    \/ LoadRemove
    \/ LoadEnqueue
    \/ LoadReturns

SpecLoad == InitLoad /\ [][NextLoad]_vars

\* sync and clone called by threads while the dispatch cycle runs
InitAttach == InitOf({Config(1, 0)})

NextAttach ==
    \/ ThreadSync({1})
    \/ ThreadClone({1})
    \/ ThreadSetProgress
    \/ ThreadSetSynchronizer
    \/ Dispatch
    \/ ExecutorSucceeds

SpecAttach == InitAttach /\ [][NextAttach]_vars

\* remote classes taken from the agent, bound to tasks or not, and the
\* names looked up on them
InitRemote == InitOf({Config(1, 0)})

NextRemote ==
    \/ AgentGetattr
    \/ RemoteClassCall
    \/ RemoteClassLookup

SpecRemote == InitRemote /\ [][NextRemote]_vars

\* packages added to and removed from a repo that starts without content
InitPackages == InitOf({Config(1, 0)})

NextPackages ==
    \/ AddPackage
    \/ RemovePackages

SpecPackages == InitPackages /\ [][NextPackages]_vars

\* the package groups of a repo created, marked immutable by an update,
\* and then deleted, replaced, modified or overwritten
InitGroups == InitOf({Config(1, 0)})

NextGroups ==
    \/ CreatePackagegroup
    \/ DeletePackagegroup
    \/ UpdatePackagegroup
    \/ UpdatePackagegroups
    \/ AddPackagesToGroup
    \/ DeletePackageFromGroup
    \/ Update

SpecGroups == InitGroups /\ [][NextGroups]_vars

\* progress: tasks with and without a timeout, some awaiting a remote
\* reply, in a process that stays up; the dispatch cycle, the executor, the
\* timeout timer, the watchdog and the clock keep running
InitLive == InitOf({Config(1, 0)})

NextLive ==
    \/ RunAsync(MaxTasks, {1}, BOOLEAN, {FALSE})
    \/ Dispatch
    \/ ExecutorSucceeds
    \/ ExecutorFails
    \/ TimeoutElapsed
    \/ Invoke
    \/ DeliverSucceeded(MaxTasks)
    \/ WatchdogExpires
    \/ ClockTick

SpecLive ==
    /\ InitLive
    /\ [][NextLive]_vars
    /\ WF_vars(Dispatch)
    /\ WF_vars(ExecutorSucceeds)
    /\ WF_vars(TimeoutElapsed)
    /\ WF_vars(WatchdogExpires)
    /\ WF_vars(ClockTick)

\* concurrent callers: threads inside enqueue step by step, cancel and find
\* of other threads, the dispatch cycle and the executor in between
InitThreads == InitOf({Config(2, 0)})

NextThreads ==
    \/ ThreadRunAsync({1}, BOOLEAN)
    \/ ThreadLocks
    \/ ThreadTests
    \/ ThreadReturns
    \/ ThreadCancel
    \/ ThreadFind
    \/ Dispatch
    \/ ExecutorSucceeds

SpecThreads == InitThreads /\ [][NextThreads]_vars

\* recovery of tasks of every key, with and without a timeout, scheduled
\* and not
InitRecover == InitOf({Config(2, 0)})

NextRecover ==
    \/ RunAsync(MaxTasks, Keys, BOOLEAN, {TRUE})
    \/ Reschedule
    \/ Dispatch
    \/ Crash
    \/ Initialize
    \/ Tick

SpecRecover == InitRecover /\ [][NextRecover]_vars

\* the failure threshold: configured below 1, and at 1
InitThreshold ==
    InitOf({ConfigOf(1, 0, ft, MaxTime + 1) : ft \in {-1, 0, 1}})

NextThreshold ==
    \/ RunAsync(MaxTasks, {1}, {FALSE}, {FALSE})
    \/ Dispatch
    \/ ExecutorSucceeds
    \/ ExecutorRaises
    \/ Crash
    \/ Initialize

SpecThreshold == InitThreshold /\ [][NextThreshold]_vars

\* settings merged: every default over every override
InitMerge == InitOf({Config(1, 0)})

NextMerge == MergeSettings

SpecMerge == InitMerge /\ [][NextMerge]_vars

\* ------------------------------------------------------------------ claims
ActiveIds == {i \in DOMAIN task : task[i].state \in Active}
TerminalIds == {i \in DOMAIN task : task[i].state \in Terminal}
RunningIds == {i \in DOMAIN task : task[i].state = "running"}
ActiveOfKey(key) == {i \in ActiveIds : task[i].key = key}
Due(i) == task[i].scheduled_time <= now

\* the max_concurrency the configuration asks for
ConfiguredConcurrency ==
    IF config.max_concurrent # 0 THEN config.max_concurrent
    ELSE config.concurrency_threshold

\* C1: an enqueue with unique=True while a task of the same key is waiting
\* or running returns None and leaves registry and storage as they were;
\* so of the tasks admitted with unique=True no two of one key are active
C1_UniqueRejected ==
    /\ [](\A i, j \in by_unique \cap ActiveIds :
             task[i].key = task[j].key => i = j)
    /\ [][(last'.op = "enqueue" /\ last'.unique
             /\ ActiveOfKey(last'.key) # {})
          => (last'.ret = None /\ UNCHANGED <<task, waiting, storage>>)]_vars

C1_Witness ==
    /\ last.op = "enqueue" /\ last.unique /\ last.ret = None
    /\ ActiveOfKey(last.key) # {}
    /\ last.id \notin DOMAIN task

\* C2: never more tasks running than the configured max_concurrency, which
\* is the one the queue was built with
C2_ConcurrencyBound ==
    /\ Cardinality(RunningIds) <= ConfiguredConcurrency
    /\ up => max_concurrency = ConfiguredConcurrency

C2_Witness ==
    /\ max_concurrency = 2
    /\ Cardinality(RunningIds) = 2
    /\ \E i \in Range(waiting) : Due(i)

\* C3: a task in a terminal state keeps that state under every later event;
\* when the registry is discarded the task has no snapshot to come back from
C3_TerminalIsFinal ==
    [][\A i \in TerminalIds :
          IF i \in DOMAIN task' THEN task'[i].state = task[i].state
          ELSE i \notin DOMAIN storage']_vars

C3_Witness ==
    /\ last.op = "reply"
    /\ last.any \in DOMAIN task
    /\ task[last.any].state \in {"canceled", "timed_out"}

\* C4: a task enters the registry waiting and every change of its state is
\* one of the six transitions of the state machine; a reply delivered for a
\* waiting task leaves it waiting
Transitions ==
    {<<"waiting", "running">>, <<"waiting", "canceled">>,
     <<"running", "succeeded">>, <<"running", "failed">>,
     <<"running", "timed_out">>, <<"running", "canceled">>}

C4_OnlyTransitions ==
    [][\A i \in DOMAIN task' :
          IF i \in DOMAIN task
          THEN task'[i].state # task[i].state
               => <<task[i].state, task'[i].state>> \in Transitions
          ELSE task'[i].state = "waiting"]_vars

C4_Witness ==
    /\ last.op = "reply"
    /\ last.any \in DOMAIN task
    /\ task[last.any].state = "waiting"

\* C5: after initialize every task that had a snapshot is in the registry,
\* waiting, exactly once
C5_AllRecovered ==
    last.op = "initialize" =>
        \A i \in last.had :
            /\ i \in DOMAIN task
            /\ task[i].state = "waiting"
            /\ Cardinality({k \in 1..Len(waiting) : waiting[k] = i}) = 1

\* C6: a task admitted and not yet terminal has a snapshot, also after a
\* crash and the recovery from it
C6_PersistedUntilTerminal ==
    /\ \A i \in ActiveIds : i \in DOMAIN storage
    /\ last.op = "initialize" => \A i \in last.had : i \in DOMAIN storage

\* C7 as stated: the ids with a snapshot are the ids of the running tasks
C7_SnapshotsAreRunning == DOMAIN storage = RunningIds

\* C7, amended: while the queue is up the ids with a snapshot are the ids of
\* the waiting and running tasks; the records outlive a crash
C7_SnapshotsAreActive == up => DOMAIN storage = ActiveIds

C7_Witness ==
    /\ up
    /\ \E i \in DOMAIN storage : task[i].state = "waiting"
    /\ \E i \in TerminalIds : i \notin DOMAIN storage

\* C8 as stated: recovery leaves no snapshot record
C8_StorageEmptyAfterRecovery == last.op = "initialize" => DOMAIN storage = {}

\* C8, amended: recovery leaves exactly the records of the tasks it
\* re-enqueued, each written anew by enqueue; a second cold start at once
\* finds these records and re-enqueues every one of them
C8_StorageHoldsRecovered ==
    last.op = "initialize" =>
        /\ DOMAIN storage = Range(waiting)
        /\ DOMAIN storage \subseteq last.had
        /\ DOMAIN task = Range(waiting)
        /\ \A found \in Orders(DOMAIN storage) :
              LET again == initialize(storage, found)
              IN  /\ again.waiting = found
                  /\ again.storage = storage

C8_Witness ==
    /\ last.op = "initialize"
    /\ Cardinality(last.had) = 2
    /\ DOMAIN storage = last.had

\* C9: a dispatch cycle promotes a task only together with every eligible
\* task enqueued before it; with max_concurrency 1 it promotes a task only
\* when none is running
Promoted(i) ==
    i \in Range(waiting) /\ i \in DOMAIN task' /\ task'[i].state = "running"

Pos(seq, x) == CHOOSE k \in 1..Len(seq) : seq[k] = x

C9_Fifo ==
    [][\A i \in Range(waiting) :
          Promoted(i) =>
              /\ \A j \in Range(waiting) :
                    (Pos(waiting, j) < Pos(waiting, i) /\ Due(j))
                    => Promoted(j)
              /\ ConfiguredConcurrency = 1 => RunningIds = {}]_vars

C9_Witness ==
    /\ ConfiguredConcurrency = 1
    /\ DOMAIN task = {1, 2, 3}
    /\ task[1].state \in Terminal
    /\ task[2].state = "running"
    /\ waiting = <<3>>
    /\ Due(3)

\* C10: an enqueue with unique=True when no task of that key is waiting or
\* running is admitted and returns the task, terminal tasks of the key in
\* the registry notwithstanding
C10_AdmittedAfterTerminal ==
    [][(last'.op = "enqueue" /\ last'.unique
          /\ ActiveOfKey(last'.key) = {})
       => /\ last'.ret = last'.id
          /\ last'.id \in DOMAIN task'
          /\ task'[last'.id].state = "waiting"
          /\ waiting' = Append(waiting, last'.id)]_vars

C10_Witness ==
    /\ last.op = "enqueue" /\ last.unique /\ last.ret = last.id
    /\ \E i \in TerminalIds : task[i].key = last.key

\* C11: of the replies and the watchdog expiry for a task one outcome takes
\* effect: a reply or an expiry delivered for a task already resolved (a late
\* or a second one) leaves its state, result and exception as they were, and
\* no task ever holds both a result and an exception
Replies == {"succeeded", "failed", "watchdog"}

C11_OneOutcome ==
    /\ [](\A i \in DOMAIN task :
             task[i].result = None \/ task[i].exception = NoException)
    /\ [][last'.op \in Replies =>
             \A i \in TerminalIds :
                 /\ i \in DOMAIN task'
                 /\ task'[i].state = task[i].state
                 /\ task'[i].result = task[i].result
                 /\ task'[i].exception = task[i].exception]_vars

C11_Witness ==
    /\ last.op = "succeeded"
    /\ last.any \in DOMAIN task
    /\ task[last.any].state = "failed"
    /\ task[last.any].exception.val = "RequestTimeout"

\* C12: an invocation with deadline d and no reply is ended by the watchdog
\* not before issue time + d and not later than issue time + d + Slack, the
\* owning task, still running, then fails with the timeout error; no
\* invocation stays unresolved forever
C12_WatchdogBound ==
    /\ [](\A i \in DOMAIN calls :
             now <= calls[i].issued + calls[i].deadline + Slack)
    /\ [][last'.op = "watchdog" =>
             /\ now >= last'.issued + last'.deadline
             /\ now <= last'.issued + last'.deadline + Slack
             /\ last'.owner \notin DOMAIN calls'
             /\ last'.owner \in RunningIds =>
                   /\ task'[last'.owner].state = "failed"
                   /\ task'[last'.owner].exception.val = "RequestTimeout"]_vars
    /\ \A i \in 1..MaxTasks : (i \in DOMAIN calls) ~> (i \notin DOMAIN calls)

C12_Witness ==
    /\ last.op = "watchdog"
    /\ now = last.issued + last.deadline + Slack
    /\ task[last.owner].state = "failed"
    /\ task[last.owner].exception.val = "RequestTimeout"

\* C13: a success reply correlated to a running task makes it succeeded,
\* its result the value of the reply (42)
C13_ReplyResult ==
    [][(last'.op = "succeeded" /\ last'.any \in RunningIds) =>
          /\ task'[last'.any].state = "succeeded"
          /\ task'[last'.any].result = last'.retval
          /\ task'[last'.any].result = 42]_vars

C13_Witness ==
    /\ last.op = "succeeded"
    /\ last.any \in DOMAIN task
    /\ task[last.any].state = "succeeded"
    /\ task[last.any].result = 42

\* C14: a failure reply correlated to a running task makes it failed, the
\* exception stored the exval of the reply itself
C14_ExceptionItself ==
    [][(last'.op = "failed" /\ last'.any \in RunningIds) =>
          /\ task'[last'.any].state = "failed"
          /\ task'[last'.any].exception = last'.exval]_vars

\* C15: a reply whose correlation payload is the id of no task of the
\* registry is logged with a warning, nothing raised, and leaves registry,
\* tasks and storage as they were
C15_UnknownDropped ==
    [][(last'.op \in {"succeeded", "failed"} /\ last'.any \notin DOMAIN task) =>
          /\ last'.outcome = "warning"
          /\ UNCHANGED <<task, waiting, storage>>]_vars

C15_Witness ==
    /\ last.op \in {"succeeded", "failed"}
    /\ last.any \notin DOMAIN task
    /\ last.outcome = "warning"
    /\ RunningIds # {}

\* C16: every invocation carries the tag "pulp.task", which the reply
\* consumer reads, and the id of the invoking task; a reply changes no task
\* but the one whose id is its correlation payload
C16_Correlated ==
    /\ [](/\ ReplyHandler_queue = "pulp.task"
          /\ \A i \in DOMAIN calls :
                calls[i].ctag = "pulp.task" /\ calls[i].any = i)
    /\ [][last'.op \in Replies =>
             \A i \in DOMAIN task :
                 i # last'.any => (i \in DOMAIN task' /\ task'[i] = task[i])]_vars

C16_Witness ==
    /\ last.op = "succeeded"
    /\ last.any \in DOMAIN task
    /\ task[last.any].state = "succeeded"
    /\ \E i \in RunningIds : i # last.any /\ i \in DOMAIN calls

\* C17: RepoApi.sync and RepoApi.clone answer a submission rejected as
\* non-unique with None and raise nothing
C17_RejectedIsNone ==
    [][(last'.op \in {"sync", "clone"} /\ ActiveOfKey(last'.key) # {}) =>
          /\ last'.ret = None
          /\ last'.raised = "none"]_vars

\* C18: an enqueue whose snapshot cannot be saved (the task has a record
\* already) and that is no non-unique rejection gives its caller neither
\* the task nor the None of a rejection
C18_SaveFailureSurfaced ==
    [][(/\ last'.op = "enqueue"
        /\ last'.id \in DOMAIN storage
        /\ ~(last'.unique /\ ActiveOfKey(last'.key) # {})) =>
          last'.ret \notin {None, last'.id}]_vars

\* C19: the scheduled sync of repository r is one enqueue call with
\* unique=True, so it runs at no time at which a sync of r is waiting or
\* running
C19_ScheduledSyncEnqueued ==
    last.op = "scheduled_sync" =>
        /\ last.enqueues = 1
        /\ last.repo \in last.runs => ActiveOfKey(last.repo) = {}

\* C20: a task is built with the timeout run_async was given; when the
\* deadline of a running task elapses the task is timed_out, with neither
\* result nor exception, and no callback or reply after changes it; a task
\* without a timeout is never timed_out
C20_TimedOut ==
    /\ [](\A i \in DOMAIN task : task[i].state = "timed_out" => task[i].timeout)
    /\ [][/\ (last'.op = "enqueue" /\ last'.ret # None) =>
                task'[last'.id].timeout = last'.timeout
          /\ (last'.op = "timeout" /\ last'.any \in RunningIds) =>
                /\ task'[last'.any].state = "timed_out"
                /\ task'[last'.any].result = None
                /\ task'[last'.any].exception = NoException
          /\ \A i \in DOMAIN task :
                (task[i].state = "timed_out" /\ i \in DOMAIN task') =>
                    task'[i] = task[i]]_vars

C20_Witness ==
    /\ last.op = "late"
    /\ task[last.any].state = "timed_out"
    /\ \E j \in DOMAIN task : ~task[j].timeout /\ task[j].state = "failed"

\* C21: cancel of a waiting task takes it out of the waiting list and marks
\* it canceled; a canceled task is not in the waiting list, and no later
\* dispatch cycle, nor anything else, makes it running
C21_CanceledNeverRuns ==
    /\ [](\A i \in DOMAIN task :
             task[i].state = "canceled" => i \notin Range(waiting))
    /\ [][/\ (last'.op = "cancel" /\ last'.was = "waiting") =>
                /\ task'[last'.id].state = "canceled"
                /\ last'.id \notin Range(waiting')
          /\ \A i \in DOMAIN task :
                (task[i].state = "canceled" /\ i \in DOMAIN task') =>
                    task'[i].state = "canceled"]_vars

C21_Witness ==
    /\ last.op = "cancel"
    /\ last.was = "waiting"
    /\ last.id = 1
    /\ waiting = <<2>>

\* C22: when the callable of a running task raises, that task is failed
\* with the error stored and nothing else changes: the other tasks, running
\* or waiting, are as they were and the queue is up; whenever a slot is free
\* the dispatch cycle promotes the oldest waiting task
C22_FailureContained ==
    /\ []((up /\ waiting # <<>> /\ Cardinality(RunningIds) < ConfiguredConcurrency)
             => ENABLED (Dispatch /\ Promoted(Head(waiting))))
    /\ [][last'.op = "raised" =>
             /\ last'.id \in RunningIds
             /\ task'[last'.id].state = "failed"
             /\ task'[last'.id].exception = last'.exception
             /\ \A j \in (DOMAIN task) \ {last'.id} :
                   j \in DOMAIN task' /\ task'[j] = task[j]
             /\ waiting' = waiting
             /\ up']_vars

C22_Witness ==
    /\ ConfiguredConcurrency = 1
    /\ 1 \in DOMAIN task /\ task[1].state = "failed"
    /\ task[1].exception = Exc("Error")
    /\ 2 \in DOMAIN task /\ task[2].state = "running"

\* C23: with a schedule_threshold configured, a scheduled waiting task whose
\* due time is older than now - schedule_threshold is not promoted by the
\* dispatch cycle and stays waiting as long as its due time is the same; a
\* waiting task whose due time has come and is not stale can be promoted
\* whenever a slot is free
StaleNow(i) ==
    /\ task[i].scheduled_time # None
    /\ task[i].scheduled_time < now - config.schedule_threshold

C23_StaleNotDispatched ==
    /\ []((/\ up
           /\ Cardinality(RunningIds) < ConfiguredConcurrency
           /\ \E i \in Range(waiting) : Due(i) /\ ~StaleNow(i))
             => ENABLED (Dispatch /\ \E i \in Range(waiting) : Promoted(i)))
    /\ [][\A i \in Range(waiting) :
             StaleNow(i) =>
                 /\ ~Promoted(i)
                 /\ (i \in DOMAIN task'
                     /\ task'[i].scheduled_time = task[i].scheduled_time)
                    => task'[i].state = "waiting"]_vars

C23_Witness ==
    /\ 1 \in Range(waiting)
    /\ StaleNow(1)
    /\ 2 \in DOMAIN task
    /\ task[2].state = "running"
    /\ task[2].scheduled_time > task[1].scheduled_time + config.schedule_threshold

\* C24: where the dispatch cycle, the executor, the timeout timer, the
\* watchdog and the clock keep running, every admitted task (all are
\* eligible here) eventually is in a terminal state, a task awaiting a
\* remote reply that never comes included
C24_EveryTaskEnds ==
    \A i \in 1..MaxTasks :
        (i \in DOMAIN task) ~> (i \in DOMAIN task /\ task[i].state \in Terminal)

C24_Witness ==
    /\ last.op = "watchdog"
    /\ task[last.owner].state = "failed"
    /\ waiting # <<>>
    /\ ConfiguredConcurrency = 1

\* C25: with threads inside enqueue at the same time, cancel and find of
\* other threads and the queue's own steps in between: an enqueue with
\* unique=True is admitted only when no task of its key is waiting or
\* running at that moment, so of the tasks admitted with unique=True no two
\* of one key are active; every task of the registry is in the waiting
\* list exactly when its state is waiting, and once; an admitted task is
\* returned, waiting and in the registry, and no step takes a task out of
\* the registry; find changes nothing and finds the task of that id
C25_ThreadSafe ==
    /\ [](/\ \A i, j \in by_unique \cap ActiveIds :
                task[i].key = task[j].key => i = j
          /\ Len(waiting) = Cardinality(Range(waiting))
          /\ \A i \in DOMAIN task :
                i \in Range(waiting) <=> task[i].state = "waiting")
    /\ [][/\ (last'.op = "enqueue" /\ last'.unique /\ last'.ret # None) =>
                ActiveOfKey(last'.key) = {}
          /\ (last'.op = "enqueue" /\ last'.ret # None) =>
                /\ last'.ret = last'.id
                /\ last'.ret \in DOMAIN task'
                /\ last'.ret \in Range(waiting')
          /\ (last'.op = "enqueue" /\ last'.ret = None) =>
                <<task', waiting', storage'>> = <<task, waiting, storage>>
          /\ last'.op = "find" =>
                /\ <<task', waiting', storage'>> = <<task, waiting, storage>>
                /\ last'.found = {last'.any} \cap DOMAIN task
          /\ \A i \in DOMAIN task : i \in DOMAIN task']_vars

\* the thread that built its task first is rejected: the other thread's
\* task of the same key, built later, was admitted in between
C25_Witness ==
    /\ last.op = "enqueue"
    /\ last.unique
    /\ last.ret = None
    /\ last.id = 1
    /\ 2 \in by_unique \cap ActiveIds
    /\ task[2].key = last.key

\* C26: a snapshot, whenever it is written, has the callable with its
\* arguments (the key), the timeout and the scheduled time of the task of
\* that id; every task recovery puts in the registry has the id of a
\* snapshot found and that snapshot's key, timeout and scheduled time
SameAsSnapshot(t, snap) ==
    /\ t.key = snap.key
    /\ t.timeout = snap.timeout
    /\ t.scheduled_time = snap.scheduled_time

MergedOver(m, d, o) ==
    /\ DOMAIN m = (DOMAIN d) \cup (DOMAIN o)
    /\ \A k \in DOMAIN m :
          m[k] = IF k \in DOMAIN o THEN o[k] ELSE d[k]

C29_ThresholdDisabled ==
    (/\ config.failure_threshold < 1
     /\ up
     /\ waiting # <<>>
     /\ Cardinality(RunningIds) < ConfiguredConcurrency)
        => ENABLED (Dispatch /\ Promoted(Head(waiting)))

C29_Witness ==
    /\ config.failure_threshold < 1
    /\ 1 \in DOMAIN task /\ task[1].state = "failed"
    /\ 2 \in DOMAIN task /\ task[2].state = "running"

\* C30: cancel of a running task leaves it running, asked to stop; a
\* running task becomes canceled only after it was asked to stop; as long
\* as it is running it holds its slot: the running tasks never exceed
\* max_concurrency and a task is promoted only when fewer are running
C30_CooperativeCancel ==
    /\ [](Cardinality(RunningIds) <= ConfiguredConcurrency)
    /\ [][/\ (last'.op = "cancel" /\ last'.was = "running") =>
                /\ task'[last'.id].state = "running"
                /\ task'[last'.id].cancel_requested
          /\ \A i \in RunningIds :
                (i \in DOMAIN task' /\ task'[i].state = "canceled") =>
                    task[i].cancel_requested
          /\ \A i \in Range(waiting) :
                Promoted(i) => Cardinality(RunningIds) < ConfiguredConcurrency]_vars

C30_Witness ==
    /\ ConfiguredConcurrency = 1
    /\ 1 \in DOMAIN task
    /\ task[1].state = "running"
    /\ task[1].cancel_requested
    /\ waiting = <<2>>
    /\ last = NoCall

\* C31: reschedule changes only the task's next-due time: its state, its
\* arguments, its place among the waiting tasks, every other task and the
\* membership of the registry stay as they were, for a waiting and for a
\* running task alike
C31_RescheduleOnlyDue ==
    [][last'.op = "reschedule" =>
          /\ DOMAIN task' = DOMAIN task
          /\ task' = [task EXCEPT ![last'.id].scheduled_time = last'.due]
          /\ waiting' = waiting
          /\ DOMAIN storage' = DOMAIN storage]_vars

C31_Witness ==
    /\ last = [op |-> "reschedule", id |-> 1, due |-> 2]
    /\ DOMAIN task = {1, 2}
    /\ task[1].state = "running"
    /\ task[1].scheduled_time = 2
    /\ task[2].state = "waiting"
    /\ task[2].scheduled_time = 1
    /\ waiting = <<2>>

\* C32: the five queries partition the registry by state: the waiting, the
\* running and the complete tasks are pairwise disjoint, the incomplete
\* tasks are the waiting and the running ones, all tasks are the incomplete
\* and the complete ones; a query returns its list and leaves the registry
\* as it was
C32_QueriesPartition ==
    /\ [](LET w == waiting_async(Q).ret
              r == running_async(Q).ret
              c == complete_async(Q).ret
              i == incomplete_async(Q).ret
              a == all_async(Q).ret
          IN  /\ w \cap r = {} /\ w \cap c = {} /\ r \cap c = {}
              /\ i = w \cup r
              /\ a = i \cup c
              /\ a = DOMAIN task
              /\ \A x \in w : task[x].state = "waiting")
    /\ [][last'.op = "query" =>
             /\ UNCHANGED <<task, waiting, storage>>
             /\ last'.ret = CASE last'.name = "waiting" -> waiting_async(Q).ret
                              [] last'.name = "running" -> running_async(Q).ret
                              [] last'.name = "incomplete" -> incomplete_async(Q).ret
                              [] last'.name = "complete" -> complete_async(Q).ret
                              [] OTHER -> all_async(Q).ret]_vars

C32_Witness ==
    /\ last = [op |-> "query", name |-> "incomplete", ret |-> {1, 2}]
    /\ DOMAIN task = {1, 2}
    /\ task[1].state = "running"
    /\ waiting = <<2>>

\* C33: a task has a result only in state succeeded and a stored exception
\* only in state failed; waiting, running, canceled and timed_out tasks
\* carry neither
C33_ResultOnlyAtEnd ==
    \A i \in DOMAIN task :
        /\ task[i].result # None => task[i].state = "succeeded"
        /\ task[i].exception # NoException => task[i].state = "failed"

C33_Witness ==
    /\ DOMAIN task = {1, 2}
    /\ task[1].state = "succeeded" /\ task[1].result = 42
    /\ task[1].exception = NoException
    /\ task[2].state = "failed" /\ task[2].exception # NoException
    /\ task[2].result = None
    /\ last.op = "failed" /\ last.any = 2

\* C34: recovery never loses a persisted task: at every point of
\* _load_persisted_tasks, and once it has returned or raised, every task
\* that had a snapshot when recovery started is in the snapshot storage or
\* in the registry
C34_RecoveryKeepsAll ==
    /\ thread[1].pc \in {"remove", "enqueue"} =>
          thread[1].had \subseteq (DOMAIN storage) \cup (DOMAIN task)
    /\ last.op \in {"load_raised", "loaded"} =>
          last.had \subseteq (DOMAIN storage) \cup (DOMAIN task)

\* C35: a task submitted by RepoApi.sync or RepoApi.clone is not running (nor
\* past running) before its progress callback and, for sync, its
\* synchronizer have been attached: while the submitting thread still has
\* one of them to attach, the task it enqueued is waiting
C35_AttachedBeforeRunning ==
    \A t \in Threads :
        (/\ thread[t].pc \in {"set_progress", "set_synchronizer"}
         /\ thread[t].task # None)
            => task[thread[t].id].state = "waiting"

\* C36: looking a method up on a RemoteClass ends with a RemoteMethod whose
\* correlation payload is the id of the task the class was last bound to by
\* calling it, and the initial task id 0 when it was never bound
C36_LookupCarriesTaskId ==
    (last.op = "lookup" /\ ~StartsWithDunder(last.name)) =>
        /\ last.got.raised = "none"
        /\ last.got.value.name = last.name
        /\ last.got.value.taskid =
              IF last.bound = Nothing THEN 0 ELSE last.bound[1]

\* C37: after any sequence of _add_package and remove_packages calls on a
\* repo whose package_count started as the number of its packages, the
\* packages list holds no id twice and package_count is its length
C37_PackageCount ==
    LET p == objectdb.packages
    IN  /\ \A i, j \in 1..Len(p) : i # j => p[i] # p[j]
        /\ objectdb.package_count = Len(p)

C37_Witness ==
    /\ objectdb.packages = <<2, 1>>
    /\ objectdb.package_count = 2
    /\ last = [op |-> "remove_packages", ids |-> <<3, 3>>]

\* C38: a package group stored as immutable is never removed, replaced or
\* modified by a RepoApi operation: the stored group stays as it is, and
\* an operation asked to change it raises
C38_ImmutableGroupKept ==
    [][/\ \A g \in DOMAIN objectdb.packagegroups :
             objectdb.packagegroups[g].immutable =>
                 /\ g \in DOMAIN objectdb'.packagegroups
                 /\ objectdb'.packagegroups[g] = objectdb.packagegroups[g]
       /\ (\E g \in last'.targets :
              /\ g \in DOMAIN objectdb.packagegroups
              /\ objectdb.packagegroups[g].immutable)
             => last'.raised = "PulpException"]_vars

====
